---- MODULE Spec2Model ----
(***************************************************************************)
(* Model of the airline reference data of the Trax service                *)
(* (src/Trax/server/app.py): the loader _normalize_airlines_payload, the   *)
(* index builder _index_airlines, the hot reload _load_airlines /          *)
(* _reload_airlines_if_changed and the resolver _airline_for_callsign.     *)
(*                                                                         *)
(* Strings are sequences of one-character strings.  A record field that    *)
(* is absent, None or "" is the empty sequence: the code reads the fields  *)
(* only through `x.get(k) or ""` and `k in r and r[k]`, which do not tell  *)
(* the three apart.                                                        *)
(***************************************************************************)
EXTENDS Integers, Sequences, FiniteSets, TLC

VARIABLES
    fileExists,             \* airlines.json exists on disk
    fileContent,            \* its content (a payload, see Payload)
    fileMtime,              \* its st_mtime
    _AIRLINES,              \* app.py:43  _AIRLINES["airlines"]
    _AIRLINES_BY_ICAO,      \* app.py:44
    _AIRLINES_BY_IATA,      \* app.py:45
    _LAST_AIRLINES_MTIME,   \* app.py:46
    service,                \* "boot" | "up" | "crashed"
    pc,                     \* per thread: the statement it is about to execute
    loc,                    \* per thread: its local variables
    call                    \* the last call of a pure function: its arguments and result

traxVars == <<fileExists, fileContent, fileMtime, _AIRLINES, _AIRLINES_BY_ICAO,
              _AIRLINES_BY_IATA, _LAST_AIRLINES_MTIME, service, pc, loc>>

vars == <<fileExists, fileContent, fileMtime, _AIRLINES, _AIRLINES_BY_ICAO,
          _AIRLINES_BY_IATA, _LAST_AIRLINES_MTIME, service, pc, loc, call>>

(***************************************************************************)
(* Bounds                                                                  *)
(***************************************************************************)
\* longest callsign body handed to the resolver
MaxCallsignLen == 4
\* most records in a payload handed to _normalize_airlines_payload
MaxRecords == 3
\* modification times of airlines.json are 1..MaxMtime
MaxMtime == 2

(***************************************************************************)
(* Strings                                                                 *)
(***************************************************************************)
\* None, as a value no string equals
PyNone == <<"<None>">>

Space == " "

\* str.upper() on one character
UpperChar(c) ==
    CASE c = "a" -> "A"
      [] c = "b" -> "B"
      [] OTHER -> c

\* str.upper()
Upper(s) == [i \in 1..Len(s) |-> UpperChar(s[i])]

RECURSIVE LStrip(_)
LStrip(s) == IF s # <<>> /\ Head(s) = Space THEN LStrip(Tail(s)) ELSE s

RECURSIVE RStrip(_)
RStrip(s) ==
    IF s # <<>> /\ s[Len(s)] = Space THEN RStrip(SubSeq(s, 1, Len(s) - 1)) ELSE s

\* str.strip()
Strip(s) == RStrip(LStrip(s))

\* s[:n]
Prefix(s, n) == SubSeq(s, 1, IF Len(s) < n THEN Len(s) ELSE n)

\* all strings over the characters cs of length at most n
RECURSIVE StringsUpTo(_, _)
StringsUpTo(cs, n) ==
    IF n = 0 THEN {<<>>}
    ELSE LET shorter == StringsUpTo(cs, n - 1)
         IN shorter \cup {Append(s, c) : s \in shorter, c \in cs}

(***************************************************************************)
(* Records and dicts                                                       *)
(***************************************************************************)
Rec(icao, iata, name) == [icao |-> icao, iata |-> iata, name |-> name]

\* placeholder where a result carries no record
NoRec == Rec(<<>>, <<>>, <<>>)

EmptyDict == [k \in {} |-> NoRec]

\* d[k] = v
DictSet(d, k, v) == [x \in (DOMAIN d) \cup {k} |-> IF x = k THEN v ELSE d[x]]

Range(f) == {f[i] : i \in DOMAIN f}

\* Records as they stand in a reference file. The loader does not constrain the
\* codes: mixed case, padding, a missing code, a 1-letter iata, a 2-letter icao and
\* two records sharing an ICAO code all occur.
RecX == Rec(<<"a", "b", "a">>, <<"a", "b">>, <<"x">>)

RecY == Rec(<<" ", "B", "A", "B">>, <<"b">>, <<"y">>)

RecZ == Rec(<<"A", "B">>, <<"a", "b", " ">>, <<"z">>)

RecW == Rec(<<"A", "B", "A">>, <<>>, <<"w">>)

RawRecords == {RecX, RecY, RecZ, RecW}

(***************************************************************************)
(* Parsed JSON.  A value is [t, rec, keys, items]:                         *)
(*   "rec"     an airline record, a dict of the fields icao, iata, name    *)
(*   "list"    a list of values (items)                                    *)
(*   "dict"    any other dict: its keys in file order and their values     *)
(*   "scalar"  a truthy scalar: a non-empty string, a non-zero number      *)
(*   "null"    a falsy scalar: null, "", 0, false                          *)
(* The file content Malformed is text that json.load rejects.              *)
(***************************************************************************)
JRec(r) == [t |-> "rec", rec |-> r, keys |-> <<>>, items |-> <<>>]

JList(xs) == [t |-> "list", rec |-> NoRec, keys |-> <<>>, items |-> xs]

JDict(ks, xs) == [t |-> "dict", rec |-> NoRec, keys |-> ks, items |-> xs]

JScalar == [t |-> "scalar", rec |-> NoRec, keys |-> <<>>, items |-> <<>>]

JNull == [t |-> "null", rec |-> NoRec, keys |-> <<>>, items |-> <<>>]

Malformed == [t |-> "malformed", rec |-> NoRec, keys |-> <<>>, items |-> <<>>]

JRecs(recs) == [i \in 1..Len(recs) |-> JRec(recs[i])]

\* keys of an object keyed by code
KeyNames == <<"k1", "k2", "k3", "k4", "k5", "k6">>

\* the three accepted shapes of one list of records
AcceptedShapes == {"airlines_list", "list", "keyed"}

Shaped(shape, recs) ==
    CASE shape = "airlines_list" -> JDict(<<"version", "airlines">>, <<JScalar, JList(JRecs(recs))>>)
      [] shape = "list" -> JList(JRecs(recs))
      [] shape = "keyed" -> JDict(SubSeq(KeyNames, 1, Len(recs)), JRecs(recs))

ContentA == Shaped("airlines_list", <<RecX, RecY>>)

ContentB == Shaped("list", <<RecZ>>)

ContentC == Shaped("keyed", <<RecX, RecW>>)

(***************************************************************************)
(* _normalize_airlines_payload (app.py:49-71)                              *)
(***************************************************************************)
isinstance_dict(v) == v.t \in {"dict", "rec"}

isinstance_list(v) == v.t = "list"

\* payload.get(key) of a dict: None when the key is absent
DictGet(payload, key) ==
    IF \E i \in 1..Len(payload.keys) : payload.keys[i] = key
    THEN payload.items[CHOOSE i \in 1..Len(payload.keys) : payload.keys[i] = key]
    ELSE JNull

\* payload.values(): of a record, its field values, which are scalars
DictValues(payload) ==
    IF payload.t = "rec" THEN <<JScalar, JScalar, JScalar>> ELSE payload.items

\* dict(rec or {}) raises on a truthy value that is no dict: ValueError on a string,
\* TypeError on a number, and on a non-empty list unless it is a list of pairs
CleanRaises(x) == x.t = "scalar" \/ (x.t = "list" /\ x.items # <<>>)

\* r = dict(rec or {}): the fields of a record; none for a falsy value
CleanCopy(x) == IF isinstance_dict(x) THEN x.rec ELSE NoRec

\* faulty variant of clean: the codes are upper-cased but not trimmed
clean_NoStrip(x) ==
    LET r == CleanCopy(x)
    IN [r EXCEPT !.icao = IF r.icao # <<>> THEN Upper(r.icao) ELSE r.icao,
                 !.iata = IF r.iata # <<>> THEN Upper(r.iata) ELSE r.iata]

\* clean(rec), app.py:51-59, where it does not raise
clean(x) ==
    LET r == CleanCopy(x)
    IN [r EXCEPT !.icao = IF r.icao # <<>> THEN Upper(Strip(r.icao)) ELSE r.icao,
                 !.iata = IF r.iata # <<>> THEN Upper(Strip(r.iata)) ELSE r.iata]

\* [clean(x) for x in xs]
CleanAll(xs) ==
    IF \E i \in 1..Len(xs) : CleanRaises(xs[i])
    THEN [kind |-> "raise", airlines |-> <<>>]
    ELSE [kind |-> "ok", airlines |-> [i \in 1..Len(xs) |-> clean(xs[i])]]

\* the function: kind "ok" with the list under "airlines", or kind "raise"
_normalize_airlines_payload(payload) ==
    IF isinstance_dict(payload) /\ isinstance_list(DictGet(payload, "airlines"))
    THEN CleanAll(DictGet(payload, "airlines").items)
    ELSE IF isinstance_list(payload) THEN CleanAll(payload.items)
    ELSE IF isinstance_dict(payload) THEN CleanAll(DictValues(payload))
    ELSE [kind |-> "ok", airlines |-> <<>>]

(***************************************************************************)
(* _index_airlines as a function of the collection (app.py:74-84)          *)
(***************************************************************************)
\* (a.get(field) or "").strip().upper()
IndexKey(v) == Upper(Strip(v))

RECURSIVE IcaoIndexOf(_)
IcaoIndexOf(airlines) ==
    IF airlines = <<>> THEN EmptyDict
    ELSE LET n == Len(airlines)
             d == IcaoIndexOf(SubSeq(airlines, 1, n - 1))
             k == IndexKey(airlines[n].icao)
         IN IF k # <<>> THEN DictSet(d, k, airlines[n]) ELSE d

RECURSIVE IataIndexOf(_)
IataIndexOf(airlines) ==
    IF airlines = <<>> THEN EmptyDict
    ELSE LET n == Len(airlines)
             d == IataIndexOf(SubSeq(airlines, 1, n - 1))
             k == IndexKey(airlines[n].iata)
         IN IF k # <<>> THEN DictSet(d, k, airlines[n]) ELSE d

(***************************************************************************)
(* _airline_for_callsign (app.py:118-126)                                  *)
(***************************************************************************)
RNone == [kind |-> "None", rec |-> NoRec]

RRec(r) == [kind |-> "rec", rec |-> r]

RRaise(e) == [kind |-> e, rec |-> NoRec]

\* `not callsign`, app.py:119
NotCallsign(callsign) == callsign = PyNone \/ callsign = <<>>

\* cs = callsign.strip().upper(), app.py:121
CallsignKey(callsign) == Upper(Strip(callsign))

\* faulty variant of IcaoTest: the length guard is dropped (cs[:3] of a shorter string)
IcaoTest_NoLen(cs, byIcao) == Prefix(cs, 3) \in DOMAIN byIcao

\* len(cs) >= 3 and cs[:3] in _AIRLINES_BY_ICAO, app.py:122
IcaoTest(cs, byIcao) == Len(cs) >= 3 /\ Prefix(cs, 3) \in DOMAIN byIcao

\* faulty variant of IataTest: the length guard is dropped (cs[:2] of a shorter string)
IataTest_NoLen(cs, byIata) == Prefix(cs, 2) \in DOMAIN byIata

\* len(cs) >= 2 and cs[:2] in _AIRLINES_BY_IATA, app.py:124
IataTest(cs, byIata) == Len(cs) >= 2 /\ Prefix(cs, 2) \in DOMAIN byIata

\* d[k], raising KeyError when k is missing
Subscript(d, k) == IF k \in DOMAIN d THEN RRec(d[k]) ELSE RRaise("KeyError")

\* faulty variant of _airline_for_callsign: the IATA table is consulted first
_airline_for_callsign_IataFirst(callsign, byIcao, byIata) ==
    IF NotCallsign(callsign) THEN RNone
    ELSE LET cs == CallsignKey(callsign)
         IN IF IataTest(cs, byIata) THEN Subscript(byIata, Prefix(cs, 2))
            ELSE IF IcaoTest(cs, byIcao) THEN Subscript(byIcao, Prefix(cs, 3))
            ELSE RNone

\* the whole function, run against one pair of indexes
_airline_for_callsign(callsign, byIcao, byIata) ==
    IF NotCallsign(callsign) THEN RNone
    ELSE LET cs == CallsignKey(callsign)
         IN IF IcaoTest(cs, byIcao) THEN Subscript(byIcao, Prefix(cs, 3))
            ELSE IF IataTest(cs, byIata) THEN Subscript(byIata, Prefix(cs, 2))
            ELSE RNone

(***************************************************************************)
(* The service: the main thread runs the initial load (app.py:130), then   *)
(* each request is served by a thread of its own (app.run, app.py:326),    *)
(* one statement at a time.  A request is the airline part of states()     *)
(* (app.py:236, 250): the reload check, then the resolver on a callsign.   *)
(* The reference file belongs to the environment, which rewrites or        *)
(* deletes it at any moment.                                               *)
(***************************************************************************)
\* no pure function is being exercised
NoCall == [fn |-> "none"]

\* the result slot of a call that has not returned yet
Pending == [kind |-> "pending"]

Threads == {"main", "w1", "w2"}

Workers == {"w1", "w2"}

\* what airlines.json may hold: one record in either of two shapes, or text that is
\* not JSON
FileX == Shaped("airlines_list", <<RecX>>)

FileZ == Shaped("keyed", <<RecZ>>)

FileContents == {FileX, FileZ, Malformed}

\* callsigns of the upstream states: an ICAO hit in FileX and an IATA hit in FileZ
RequestCallsigns == {<<"a", "b", "a", "B">>}

\* fileContent while the file does not exist
NoFile == JNull

LoadPcs == {"ld_exists", "ld_miss_airlines", "ld_miss_mtime", "ld_read", "ld_norm",
            "ld_stat", "ix_reset_icao", "ix_reset_iata", "ix_iter", "ix_icao", "ix_iata"}

\* cs: the callsign of the request; m, raw: locals of the reload check and the load;
\* it, i: the list the index loop iterates and its position; miss: the load took the
\* missing-file path; ret: what the request's resolver call returned or raised
NoLocals ==
    [cs |-> <<>>, m |-> 0, raw |-> JNull, it |-> <<>>, i |-> 0, miss |-> FALSE, ret |-> Pending]

Init ==
    /\ \/ fileExists = TRUE /\ fileContent \in FileContents /\ fileMtime \in 1..MaxMtime
       \/ fileExists = FALSE /\ fileContent = NoFile /\ fileMtime = 0
    /\ _AIRLINES = <<>>
    /\ _AIRLINES_BY_ICAO = EmptyDict
    /\ _AIRLINES_BY_IATA = EmptyDict
    /\ _LAST_AIRLINES_MTIME = 0
    /\ service = "boot"
    /\ pc = [t \in Threads |-> IF t = "main" THEN "ld_exists" ELSE "idle"]
    /\ loc = [t \in Threads |-> NoLocals]
    /\ call = NoCall

fileVars == <<fileExists, fileContent, fileMtime>>

globalVars == <<_AIRLINES, _AIRLINES_BY_ICAO, _AIRLINES_BY_IATA, _LAST_AIRLINES_MTIME>>

\* the environment writes airlines.json: any content, any modification time
WriteFile ==
    /\ service # "crashed"
    /\ \E c \in FileContents, mt \in 1..MaxMtime :
          /\ fileExists' = TRUE
          /\ fileContent' = c
          /\ fileMtime' = mt
    /\ UNCHANGED <<globalVars, service, pc, loc, call>>

\* the environment deletes airlines.json
DeleteFile ==
    /\ service # "crashed"
    /\ fileExists
    /\ fileExists' = FALSE
    /\ fileContent' = NoFile
    /\ fileMtime' = 0
    /\ UNCHANGED <<globalVars, service, pc, loc, call>>

\* a request arrives: states() runs up to its reload check
Begin(t) ==
    /\ t \in Workers
    /\ service = "up"
    /\ pc[t] = "idle"
    /\ \E cs \in RequestCallsigns :
          loc' = [loc EXCEPT ![t] = [NoLocals EXCEPT !.cs = cs]]
    /\ pc' = [pc EXCEPT ![t] = "rc_stat"]
    /\ UNCHANGED <<fileVars, globalVars, service, call>>

\* _reload_airlines_if_changed: m = p.stat().st_mtime; a missing file raises
\* FileNotFoundError, which line 114 swallows
RcStat(t) ==
    /\ pc[t] = "rc_stat"
    /\ IF fileExists
       THEN /\ loc' = [loc EXCEPT ![t].m = fileMtime]
            /\ pc' = [pc EXCEPT ![t] = "rc_cmp"]
       ELSE /\ pc' = [pc EXCEPT ![t] = "r_entry"]
            /\ UNCHANGED loc
    /\ UNCHANGED <<fileVars, globalVars, service, call>>

\* if m != _LAST_AIRLINES_MTIME: _load_airlines()
RcCmp(t) ==
    /\ pc[t] = "rc_cmp"
    /\ IF loc[t].m # _LAST_AIRLINES_MTIME
       THEN pc' = [pc EXCEPT ![t] = "ld_exists"]
       ELSE pc' = [pc EXCEPT ![t] = "r_entry"]
    /\ UNCHANGED <<fileVars, globalVars, service, loc, call>>

\* _load_airlines returns: to the module body at start-up, to states() in a request
LoadReturns(t) ==
    /\ pc' = [pc EXCEPT ![t] = IF t = "main" THEN "serving" ELSE "r_entry"]
    /\ service' = IF t = "main" THEN "up" ELSE service
    /\ loc' = [loc EXCEPT ![t].it = <<>>, ![t].i = 0, ![t].miss = FALSE]

\* _load_airlines raises e: at start-up the import fails and the service is down;
\* in a request the reload check swallows FileNotFoundError (line 114) and lets
\* anything else fail the request
LoadRaises(t, e) ==
    /\ pc' = [pc EXCEPT ![t] = IF t = "main" THEN "crashed"
                               ELSE IF e = "FileNotFoundError" THEN "r_entry" ELSE "done"]
    /\ service' = IF t = "main" THEN "crashed" ELSE service
    /\ loc' = [loc EXCEPT ![t].raw = JNull,
                          ![t].miss = FALSE,
                          ![t].ret = IF t = "main" \/ e # "FileNotFoundError"
                                     THEN RRaise(e) ELSE Pending]

\* if not p.exists():
LdExists(t) ==
    /\ pc[t] = "ld_exists"
    /\ pc' = [pc EXCEPT ![t] = IF fileExists THEN "ld_read" ELSE "ld_miss_airlines"]
    /\ loc' = [loc EXCEPT ![t].miss = ~fileExists]
    /\ UNCHANGED <<fileVars, globalVars, service, call>>

\* _AIRLINES = {"airlines": []}
LdMissAirlines(t) ==
    /\ pc[t] = "ld_miss_airlines"
    /\ _AIRLINES' = <<>>
    /\ pc' = [pc EXCEPT ![t] = "ld_miss_mtime"]
    /\ UNCHANGED <<fileVars, _AIRLINES_BY_ICAO, _AIRLINES_BY_IATA, _LAST_AIRLINES_MTIME,
                   service, loc, call>>

\* _LAST_AIRLINES_MTIME = 0, then _index_airlines() is entered
LdMissMtime(t) ==
    /\ pc[t] = "ld_miss_mtime"
    /\ _LAST_AIRLINES_MTIME' = 0
    /\ pc' = [pc EXCEPT ![t] = "ix_reset_icao"]
    /\ UNCHANGED <<fileVars, _AIRLINES, _AIRLINES_BY_ICAO, _AIRLINES_BY_IATA,
                   service, loc, call>>

\* with p.open(...) as f: raw = json.load(f)
LdRead(t) ==
    /\ pc[t] = "ld_read"
    /\ IF ~fileExists
       THEN LoadRaises(t, "FileNotFoundError")
       ELSE IF fileContent = Malformed
       THEN LoadRaises(t, "JSONDecodeError")
       ELSE /\ loc' = [loc EXCEPT ![t].raw = fileContent]
            /\ pc' = [pc EXCEPT ![t] = "ld_norm"]
            /\ UNCHANGED service
    /\ UNCHANGED <<fileVars, globalVars, call>>

\* _AIRLINES = _normalize_airlines_payload(raw)
LdNorm(t) ==
    /\ pc[t] = "ld_norm"
    /\ LET n == _normalize_airlines_payload(loc[t].raw)
       IN IF n.kind = "raise"
          THEN LoadRaises(t, "ValueError") /\ UNCHANGED _AIRLINES
          ELSE /\ _AIRLINES' = n.airlines
               /\ pc' = [pc EXCEPT ![t] = "ld_stat"]
               /\ loc' = [loc EXCEPT ![t].raw = JNull]
               /\ UNCHANGED service
    /\ UNCHANGED <<fileVars, _AIRLINES_BY_ICAO, _AIRLINES_BY_IATA, _LAST_AIRLINES_MTIME, call>>

\* _LAST_AIRLINES_MTIME = p.stat().st_mtime, then _index_airlines() is entered
LdStat(t) ==
    /\ pc[t] = "ld_stat"
    /\ IF ~fileExists
       THEN LoadRaises(t, "FileNotFoundError") /\ UNCHANGED _LAST_AIRLINES_MTIME
       ELSE /\ _LAST_AIRLINES_MTIME' = fileMtime
            /\ pc' = [pc EXCEPT ![t] = "ix_reset_icao"]
            /\ UNCHANGED <<service, loc>>
    /\ UNCHANGED <<fileVars, _AIRLINES, _AIRLINES_BY_ICAO, _AIRLINES_BY_IATA, call>>

\* _index_airlines: _AIRLINES_BY_ICAO = {}
IxResetIcao(t) ==
    /\ pc[t] = "ix_reset_icao"
    /\ _AIRLINES_BY_ICAO' = EmptyDict
    /\ pc' = [pc EXCEPT ![t] = "ix_reset_iata"]
    /\ UNCHANGED <<fileVars, _AIRLINES, _AIRLINES_BY_IATA, _LAST_AIRLINES_MTIME,
                   service, loc, call>>

\* _index_airlines: _AIRLINES_BY_IATA = {}
IxResetIata(t) ==
    /\ pc[t] = "ix_reset_iata"
    /\ _AIRLINES_BY_IATA' = EmptyDict
    /\ pc' = [pc EXCEPT ![t] = "ix_iter"]
    /\ UNCHANGED <<fileVars, _AIRLINES, _AIRLINES_BY_ICAO, _LAST_AIRLINES_MTIME,
                   service, loc, call>>

\* _index_airlines: for a in _AIRLINES.get("airlines", []): the loop takes the list
\* that _AIRLINES holds now; an empty list ends the function and the load
IxIter(t) ==
    /\ pc[t] = "ix_iter"
    /\ IF _AIRLINES = <<>>
       THEN LoadReturns(t)
       ELSE /\ loc' = [loc EXCEPT ![t].it = _AIRLINES, ![t].i = 1]
            /\ pc' = [pc EXCEPT ![t] = "ix_icao"]
            /\ UNCHANGED service
    /\ UNCHANGED <<fileVars, globalVars, call>>

\* _index_airlines: if icao: _AIRLINES_BY_ICAO[icao] = a (into the dict the global
\* names now)
IxIcao(t) ==
    /\ pc[t] = "ix_icao"
    /\ LET a == loc[t].it[loc[t].i]
           icao == IndexKey(a.icao)
       IN _AIRLINES_BY_ICAO' = IF icao # <<>> THEN DictSet(_AIRLINES_BY_ICAO, icao, a)
                                ELSE _AIRLINES_BY_ICAO
    /\ pc' = [pc EXCEPT ![t] = "ix_iata"]
    /\ UNCHANGED <<fileVars, _AIRLINES, _AIRLINES_BY_IATA, _LAST_AIRLINES_MTIME,
                   service, loc, call>>

\* _index_airlines: if iata: _AIRLINES_BY_IATA[iata] = a; then the next record, or
\* the end of the loop, of the function and of the load
IxIata(t) ==
    /\ pc[t] = "ix_iata"
    /\ LET a == loc[t].it[loc[t].i]
           iata == IndexKey(a.iata)
       IN _AIRLINES_BY_IATA' = IF iata # <<>> THEN DictSet(_AIRLINES_BY_IATA, iata, a)
                                ELSE _AIRLINES_BY_IATA
    /\ IF loc[t].i < Len(loc[t].it)
       THEN /\ loc' = [loc EXCEPT ![t].i = @ + 1]
            /\ pc' = [pc EXCEPT ![t] = "ix_icao"]
            /\ UNCHANGED service
       ELSE LoadReturns(t)
    /\ UNCHANGED <<fileVars, _AIRLINES, _AIRLINES_BY_ICAO, _LAST_AIRLINES_MTIME, call>>

\* _airline_for_callsign: if not callsign: return None; cs = callsign.strip().upper()
REntry(t) ==
    /\ pc[t] = "r_entry"
    /\ IF NotCallsign(loc[t].cs)
       THEN /\ loc' = [loc EXCEPT ![t].ret = RNone]
            /\ pc' = [pc EXCEPT ![t] = "done"]
       ELSE /\ pc' = [pc EXCEPT ![t] = "r_icao_test"]
            /\ UNCHANGED loc
    /\ UNCHANGED <<fileVars, globalVars, service, call>>

\* if len(cs) >= 3 and cs[:3] in _AIRLINES_BY_ICAO:
RIcaoTest(t) ==
    /\ pc[t] = "r_icao_test"
    /\ pc' = [pc EXCEPT ![t] = IF IcaoTest(CallsignKey(loc[t].cs), _AIRLINES_BY_ICAO)
                               THEN "r_icao_get" ELSE "r_iata_test"]
    /\ UNCHANGED <<fileVars, globalVars, service, loc, call>>

\* faulty variant of RIcaoGet: the hit is taken out of the index (dict.pop)
RIcaoGet_Pop(t) ==
    /\ pc[t] = "r_icao_get"
    /\ LET k == Prefix(CallsignKey(loc[t].cs), 3)
       IN /\ loc' = [loc EXCEPT ![t].ret = Subscript(_AIRLINES_BY_ICAO, k)]
          /\ _AIRLINES_BY_ICAO' = [x \in (DOMAIN _AIRLINES_BY_ICAO) \ {k} |-> _AIRLINES_BY_ICAO[x]]
    /\ pc' = [pc EXCEPT ![t] = "done"]
    /\ UNCHANGED <<fileVars, _AIRLINES, _AIRLINES_BY_IATA, _LAST_AIRLINES_MTIME,
                   service, call>>

\* return _AIRLINES_BY_ICAO[cs[:3]]: the global is read again, and a key that is
\* gone by now raises KeyError
RIcaoGet(t) ==
    /\ pc[t] = "r_icao_get"
    /\ loc' = [loc EXCEPT ![t].ret = Subscript(_AIRLINES_BY_ICAO, Prefix(CallsignKey(loc[t].cs), 3))]
    /\ pc' = [pc EXCEPT ![t] = "done"]
    /\ UNCHANGED <<fileVars, globalVars, service, call>>

\* if len(cs) >= 2 and cs[:2] in _AIRLINES_BY_IATA: ... else: return None
RIataTest(t) ==
    /\ pc[t] = "r_iata_test"
    /\ IF IataTest(CallsignKey(loc[t].cs), _AIRLINES_BY_IATA)
       THEN /\ pc' = [pc EXCEPT ![t] = "r_iata_get"]
            /\ UNCHANGED loc
       ELSE /\ loc' = [loc EXCEPT ![t].ret = RNone]
            /\ pc' = [pc EXCEPT ![t] = "done"]
    /\ UNCHANGED <<fileVars, globalVars, service, call>>

\* return _AIRLINES_BY_IATA[cs[:2]]
RIataGet(t) ==
    /\ pc[t] = "r_iata_get"
    /\ loc' = [loc EXCEPT ![t].ret = Subscript(_AIRLINES_BY_IATA, Prefix(CallsignKey(loc[t].cs), 2))]
    /\ pc' = [pc EXCEPT ![t] = "done"]
    /\ UNCHANGED <<fileVars, globalVars, service, call>>

\* the request is answered (with the airline, or with an error if it raised)
Finish(t) ==
    /\ pc[t] = "done"
    /\ pc' = [pc EXCEPT ![t] = "idle"]
    /\ loc' = [loc EXCEPT ![t] = NoLocals]
    /\ UNCHANGED <<fileVars, globalVars, service, call>>

Next ==
    \/ WriteFile
    \/ DeleteFile
    \/ \E t \in Threads :
          \/ Begin(t)
          \/ RcStat(t)
          \/ RcCmp(t)
          \/ LdExists(t)
          \/ LdMissAirlines(t)
          \/ LdMissMtime(t)
          \/ LdRead(t)
          \/ LdNorm(t)
          \/ LdStat(t)
          \/ IxResetIcao(t)
          \/ IxResetIata(t)
          \/ IxIter(t)
          \/ IxIcao(t)
          \/ IxIata(t)
          \/ REntry(t)
          \/ RIcaoTest(t)
          \/ RIcaoGet(t)
          \/ RIataTest(t)
          \/ RIataGet(t)
          \/ Finish(t)

Spec == Init /\ [][Next]_vars

(***************************************************************************)
(* Claims about the reload and its readers                                 *)
(***************************************************************************)
\* both indexes are the complete indexes of the collection _AIRLINES holds
Consistent ==
    /\ _AIRLINES_BY_ICAO = IcaoIndexOf(_AIRLINES)
    /\ _AIRLINES_BY_IATA = IataIndexOf(_AIRLINES)

\* the records either index holds
IndexedRecords == Range(_AIRLINES_BY_ICAO) \cup Range(_AIRLINES_BY_IATA)

\* the statements of the resolver that read an index
ReadPcs == {"r_icao_test", "r_icao_get", "r_iata_test", "r_iata_get"}

\* thread t returns from _load_airlines in this step
LoadReturnsNow(t) == pc[t] \in {"ix_iter", "ix_iata"} /\ pc'[t] \in {"r_entry", "serving"}

\* C1: a thread that reads an index while another thread is inside _load_airlines
\* finds a complete pair of indexes, and it is the pair of the collection in
\* _AIRLINES: never an empty or half-built index, never a new collection with the
\* old indexes.
C1_ReloadAtomicForReaders ==
    \A r \in Workers :
        (pc[r] \in ReadPcs /\ \E u \in Threads \ {r} : pc[u] \in LoadPcs) => Consistent

\* C2: once the reloads have completed, the indexes reflect one set of records only:
\* every record they hold stems from one and the same file, none from an older one.
C2_OnlyNewSetAfterReload ==
    (\A t \in Threads : pc[t] \notin LoadPcs) =>
        \E f \in {FileX, FileZ, JNull} :
            IndexedRecords \subseteq Range(_normalize_airlines_payload(f).airlines)

\* C7: when a load that found no file returns, the collection and both indexes are
\* empty and the recorded modification time is 0 (so that every resolver call
\* returns no match).
C7_MissingFileLoadsEmpty ==
    [][\A t \in Threads :
          (LoadReturnsNow(t) /\ loc[t].miss) =>
              /\ _AIRLINES' = <<>>
              /\ _AIRLINES_BY_ICAO' = EmptyDict
              /\ _AIRLINES_BY_IATA' = EmptyDict
              /\ _LAST_AIRLINES_MTIME' = 0]_vars

\* C8: a load of a file that is not valid JSON does not raise: neither the start-up
\* nor a request ends in JSONDecodeError.
C8_MalformedFileDoesNotRaise ==
    \A t \in Threads : loc[t].ret # RRaise("JSONDecodeError")

\* C9: a reload check that finds the file gone leaves the collection and both
\* indexes empty.
C9_DeletedFileEmptiesTable ==
    [][\A t \in Workers :
          (pc[t] = "rc_stat" /\ ~fileExists /\ pc'[t] = "r_entry") =>
              /\ _AIRLINES' = <<>>
              /\ _AIRLINES_BY_ICAO' = EmptyDict
              /\ _AIRLINES_BY_IATA' = EmptyDict]_vars

(***************************************************************************)
(* The pure functions, applied to inputs drawn from bounded sets           *)
(***************************************************************************)
\* callsigns: None, and every string of at most MaxCallsignLen characters
CallsignInputs == {PyNone} \cup StringsUpTo({"a", "B", Space}, MaxCallsignLen)

\* collections a load can leave in _AIRLINES
LoadedCollections ==
    { _normalize_airlines_payload(p).airlines : p \in {ContentA, ContentB, ContentC, JScalar} }

\* lists of at most n records of a reference file
RECURSIVE RecordLists(_)
RecordLists(n) ==
    IF n = 0 THEN {<<>>}
    ELSE LET shorter == RecordLists(n - 1)
         IN shorter \cup {Append(l, r) : l \in shorter, r \in RawRecords}

\* the state of the service while a pure function is exercised: not started
TraxOff ==
    /\ fileExists = FALSE
    /\ fileContent = Malformed
    /\ fileMtime = 0
    /\ _AIRLINES = <<>>
    /\ _AIRLINES_BY_ICAO = EmptyDict
    /\ _AIRLINES_BY_IATA = EmptyDict
    /\ _LAST_AIRLINES_MTIME = 0
    /\ service = "off"
    /\ pc = <<>>
    /\ loc = <<>>

\* the inputs of one call of _airline_for_callsign: a callsign and the indexes of
\* loaded collections (the two indexes may stem from different collections, as in
\* the middle of a reload)
InitResolver ==
    /\ TraxOff
    /\ \E callsign \in CallsignInputs, c1 \in LoadedCollections, c2 \in LoadedCollections :
          call = [fn |-> "_airline_for_callsign",
                  callsign |-> callsign,
                  byIcao |-> IcaoIndexOf(c1),
                  byIata |-> IataIndexOf(c2),
                  out |-> Pending]

\* the call
ResolverCall ==
    /\ call.fn = "_airline_for_callsign"
    /\ call.out = Pending
    /\ call' = [call EXCEPT !.out = _airline_for_callsign(call.callsign, call.byIcao, call.byIata)]
    /\ UNCHANGED traxVars

SpecResolver == InitResolver /\ [][ResolverCall]_vars

\* the inputs of one call of _normalize_airlines_payload: a list of records and the
\* shape it is supplied in
InitNormalize ==
    /\ TraxOff
    /\ \E recs \in RecordLists(MaxRecords), shape \in AcceptedShapes :
          call = [fn |-> "_normalize_airlines_payload",
                  recs |-> recs,
                  shape |-> shape,
                  out |-> Pending,
                  others |-> Pending]

\* the call; `others` receives the results for the same records in each shape
NormalizeCall ==
    /\ call.fn = "_normalize_airlines_payload"
    /\ call.out = Pending
    /\ call' = [call EXCEPT
                  !.out = _normalize_airlines_payload(Shaped(call.shape, call.recs)),
                  !.others = [s \in AcceptedShapes |->
                                 _normalize_airlines_payload(Shaped(s, call.recs))]]
    /\ UNCHANGED traxVars

SpecNormalize == InitNormalize /\ [][NormalizeCall]_vars

(***************************************************************************)
(* Claims about _airline_for_callsign                                      *)
(***************************************************************************)
\* a call of the resolver has returned
IsResolverCall == call.fn = "_airline_for_callsign" /\ call.out # Pending

\* the callsign of the call, trimmed and upper-cased ("" for None)
CallKey == IF call.callsign = PyNone THEN <<>> ELSE Upper(Strip(call.callsign))

\* C3: whenever the first 3 characters of the trimmed, upper-cased callsign are a key
\* of the ICAO index, the resolver returns the record under that key, whatever
\* follows and whatever the IATA index holds.
C3_IcaoMatchWins ==
    (IsResolverCall /\ Len(CallKey) >= 3 /\ SubSeq(CallKey, 1, 3) \in DOMAIN call.byIcao)
        => call.out = RRec(call.byIcao[SubSeq(CallKey, 1, 3)])

\* a 4-character callsign whose first 3 characters are an ICAO key and whose first 2
\* are an IATA key of another record: the ICAO record came back
C3_Witness ==
    /\ IsResolverCall
    /\ Len(CallKey) = 4
    /\ SubSeq(CallKey, 1, 3) \in DOMAIN call.byIcao
    /\ SubSeq(CallKey, 1, 2) \in DOMAIN call.byIata
    /\ call.byIata[SubSeq(CallKey, 1, 2)] # call.byIcao[SubSeq(CallKey, 1, 3)]
    /\ call.out = RRec(call.byIcao[SubSeq(CallKey, 1, 3)])

\* C4: a callsign of exactly 2 characters, or of 3 and more whose first 3 are no ICAO
\* key, resolves to the record under its first 2 characters in the IATA index if
\* that key is loaded, and to no match otherwise.
C4_IataFallback ==
    (/\ IsResolverCall
     /\ Len(CallKey) >= 2
     /\ (Len(CallKey) = 2 \/ SubSeq(CallKey, 1, 3) \notin DOMAIN call.byIcao))
        => call.out = IF SubSeq(CallKey, 1, 2) \in DOMAIN call.byIata
                      THEN RRec(call.byIata[SubSeq(CallKey, 1, 2)])
                      ELSE RNone

\* a 2-character callsign that is itself a key of the ICAO index and of the IATA
\* index: the IATA record came back
C4_Witness ==
    /\ IsResolverCall
    /\ Len(CallKey) = 2
    /\ CallKey \in DOMAIN call.byIcao
    /\ CallKey \in DOMAIN call.byIata
    /\ call.out = RRec(call.byIata[CallKey])
    /\ call.out # RRec(call.byIcao[CallKey])

\* C5: a callsign that is None or shorter than 2 characters after trimming resolves
\* to no match, without raising, whatever the indexes hold.
C5_ShortCallsignNoMatch ==
    (IsResolverCall /\ (call.callsign = PyNone \/ Len(Strip(call.callsign)) < 2))
        => call.out = RNone

\* a 1-character callsign that is a key of the IATA index: no match came back
C5_Witness ==
    /\ IsResolverCall
    /\ call.callsign # PyNone
    /\ Len(CallKey) = 1
    /\ CallKey \in DOMAIN call.byIata
    /\ call.out = RNone

(***************************************************************************)
(* The resolver called again and again on a loaded service, nothing else   *)
(* running: the statements of _airline_for_callsign as the request thread  *)
(* w1 executes them.                                                       *)
(***************************************************************************)
\* calls of the resolver made in a row
MaxCalls == 2

\* a service that has loaded some collection (the two indexes may stem from
\* different collections) and a callsign about to be resolved
InitRepeat ==
    /\ fileExists = FALSE
    /\ fileContent = NoFile
    /\ fileMtime = 0
    /\ \E c1 \in LoadedCollections, c2 \in LoadedCollections :
          /\ _AIRLINES = c1
          /\ _AIRLINES_BY_ICAO = IcaoIndexOf(c1)
          /\ _AIRLINES_BY_IATA = IataIndexOf(c2)
    /\ _LAST_AIRLINES_MTIME = 1
    /\ service = "up"
    /\ pc = [t \in Threads |-> IF t = "main" THEN "serving"
                               ELSE IF t = "w1" THEN "r_entry" ELSE "idle"]
    /\ \E cs \in CallsignInputs :
          loc = [t \in Threads |-> IF t = "w1" THEN [NoLocals EXCEPT !.cs = cs] ELSE NoLocals]
    /\ call = [fn |-> "repeat", n |-> 1, first |-> Pending,
               before |-> <<_AIRLINES, _AIRLINES_BY_ICAO, _AIRLINES_BY_IATA,
                            _LAST_AIRLINES_MTIME>>]

\* the same callsign is resolved once more; the first result is kept for comparison
CallAgain(t) ==
    /\ pc[t] = "done"
    /\ call.fn = "repeat"
    /\ call.n < MaxCalls
    /\ call' = [call EXCEPT !.n = @ + 1,
                            !.first = IF call.n = 1 THEN loc[t].ret ELSE @]
    /\ pc' = [pc EXCEPT ![t] = "r_entry"]
    /\ loc' = [loc EXCEPT ![t].ret = Pending]
    /\ UNCHANGED <<fileVars, globalVars, service>>

NextRepeat ==
    \/ REntry("w1")
    \/ RIcaoTest("w1")
    \/ RIcaoGet("w1")
    \/ RIataTest("w1")
    \/ RIataGet("w1")
    \/ CallAgain("w1")

SpecRepeat == InitRepeat /\ [][NextRepeat]_vars

\* C6: calls of the resolver leave the collection, both indexes and the recorded
\* modification time as they were, and so every repeated call with the same
\* callsign returns what the first call returned.
C6_RepeatedCallsAgree ==
    call.fn = "repeat" =>
        /\ <<_AIRLINES, _AIRLINES_BY_ICAO, _AIRLINES_BY_IATA, _LAST_AIRLINES_MTIME>> = call.before
        /\ (pc["w1"] = "done" /\ call.n >= 2) => loc["w1"].ret = call.first

\* a callsign of 3 and more characters that matches neither table of a loaded,
\* non-empty index was resolved twice: no match both times
C6_Witness ==
    /\ call.fn = "repeat"
    /\ call.n = 2
    /\ pc["w1"] = "done"
    /\ Len(CallsignKey(loc["w1"].cs)) >= 3
    /\ DOMAIN _AIRLINES_BY_ICAO # {}
    /\ DOMAIN _AIRLINES_BY_IATA # {}
    /\ call.first = RNone
    /\ loc["w1"].ret = RNone

(***************************************************************************)
(* Claims about _normalize_airlines_payload                                *)
(***************************************************************************)
\* a call of the loader has returned
IsNormalizeCall == call.fn = "_normalize_airlines_payload" /\ call.out # Pending

\* what the claim calls a cleaned record: icao and iata trimmed and upper-cased
Cleaned(r) == [r EXCEPT !.icao = Upper(Strip(r.icao)), !.iata = Upper(Strip(r.iata))]

\* C10: in each of the three shapes the result is the list of the cleaned records,
\* one per input record and in input order, and it is the same list for all shapes.
C10_ThreeShapesOneList ==
    IsNormalizeCall =>
        /\ call.out.kind = "ok"
        /\ Len(call.out.airlines) = Len(call.recs)
        /\ \A i \in 1..Len(call.recs) : call.out.airlines[i] = Cleaned(call.recs[i])
        /\ \A s \in AcceptedShapes : call.others[s] = call.out

\* an object keyed by code with 2 and more records, a padded lower-case code among them
C10_Witness ==
    /\ IsNormalizeCall
    /\ call.shape = "keyed"
    /\ Len(call.recs) >= 2
    /\ call.recs[1] # call.recs[2]
    /\ \E i \in 1..Len(call.recs) : Strip(call.recs[i].iata) # call.recs[i].iata
    /\ call.out.kind = "ok"
    /\ call.out.airlines # call.recs

(***************************************************************************)
(* _normalize_airlines_payload on payloads of any shape                    *)
(***************************************************************************)
\* values found in a parsed file where a record is expected: a string or number,
\* null, a record, an empty list, a list of strings, an empty object
OddValues == {JScalar, JNull, JRec(RecX), JList(<<>>), JList(<<JScalar>>), JDict(<<>>, <<>>)}

\* sequences of at most n such values
RECURSIVE OddLists(_)
OddLists(n) ==
    IF n = 0 THEN {<<>>}
    ELSE LET shorter == OddLists(n - 1)
         IN shorter \cup {Append(l, v) : l \in shorter, v \in OddValues}

\* parsed payloads: a scalar, null, a list of values, an object of values keyed by
\* code, an object whose "airlines" property is any value
AnyPayloads ==
    {JScalar, JNull}
      \cup {JList(xs) : xs \in OddLists(MaxRecords)}
      \cup {JDict(SubSeq(KeyNames, 1, Len(xs)), xs) : xs \in OddLists(MaxRecords)}
      \cup {JDict(<<"airlines">>, <<v>>) : v \in OddValues}

InitNormalizeAny ==
    /\ TraxOff
    /\ \E payload \in AnyPayloads :
          call = [fn |-> "_normalize_airlines_payload(any)", payload |-> payload, out |-> Pending]

\* the call
NormalizeAnyCall ==
    /\ call.fn = "_normalize_airlines_payload(any)"
    /\ call.out = Pending
    /\ call' = [call EXCEPT !.out = _normalize_airlines_payload(call.payload)]
    /\ UNCHANGED traxVars

SpecNormalizeAny == InitNormalizeAny /\ [][NormalizeAnyCall]_vars

\* a list of values none of which is a record object
NoRecordIn(xs) == \A i \in 1..Len(xs) : xs[i].t # "rec"

\* a payload of an unknown shape: a scalar, null, a non-empty list or object with no
\* record among its elements, an object whose "airlines" property is not a list
UnknownShape(p) ==
    \/ p.t \in {"scalar", "null"}
    \/ p.t = "list" /\ p.items # <<>> /\ NoRecordIn(p.items)
    \/ p.t = "dict" /\ p.keys = <<"airlines">> /\ p.items[1].t # "list"
    \/ p.t = "dict" /\ p.keys # <<"airlines">> /\ p.items # <<>> /\ NoRecordIn(p.items)

\* C11: the loader raises on no parsed payload, and for a payload of an unknown shape
\* it returns the empty list.
C11_UnknownShapeBecomesEmpty ==
    (call.fn = "_normalize_airlines_payload(any)" /\ call.out # Pending)
        => /\ call.out.kind = "ok"
           /\ UnknownShape(call.payload) => call.out.airlines = <<>>

(***************************************************************************)
(* The hotel brand logo resolver of the yocto service                      *)
(* (src/yocto/app.py:129-182): _norm, BRAND_LOGOS, ALIAS, _alias,          *)
(* logo_for_property                                                       *)
(***************************************************************************)
UpperLetters ==
    <<"A", "B", "C", "D", "E", "F", "G", "H", "I", "J", "K", "L", "M",
      "N", "O", "P", "Q", "R", "S", "T", "U", "V", "W", "X", "Y", "Z">>

LowerLetters ==
    <<"a", "b", "c", "d", "e", "f", "g", "h", "i", "j", "k", "l", "m",
      "n", "o", "p", "q", "r", "s", "t", "u", "v", "w", "x", "y", "z">>

Digits == <<"0", "1", "2", "3", "4", "5", "6", "7", "8", "9">>

\* str.lower() on one character
LowerChar(c) ==
    IF \E i \in DOMAIN UpperLetters : UpperLetters[i] = c
    THEN LowerLetters[CHOOSE i \in DOMAIN UpperLetters : UpperLetters[i] = c]
    ELSE c

\* str.lower()
Lower(s) == [i \in 1..Len(s) |-> LowerChar(s[i])]

\* re.sub(r"&", " and ", s)
RECURSIVE SubAmp(_)
SubAmp(s) ==
    IF s = <<>> THEN <<>>
    ELSE IF Head(s) = "&" THEN <<" ", "a", "n", "d", " ">> \o SubAmp(Tail(s))
    ELSE <<Head(s)>> \o SubAmp(Tail(s))

\* the class [a-z0-9]
IsLowerAlnum(c) == c \in Range(LowerLetters) \cup Range(Digits)

\* s.startswith(prefix)
StartsWith(s, prefix) == Len(s) >= Len(prefix) /\ SubSeq(s, 1, Len(prefix)) = prefix

\* `key in tok` for strings
Contains(key, tok) ==
    \E i \in 1..(Len(tok) - Len(key) + 1) : SubSeq(tok, i, i + Len(key) - 1) = key

\* faulty variant of _norm: the hyphen survives the clean-up
_norm_KeepHyphen(s) ==
    LET keep(c) == IsLowerAlnum(c) \/ c = "-"
    IN SelectSeq(SubAmp(Strip(Lower(s))), keep)

\* _norm(s), app.py:129-132
_norm(s) == SelectSeq(SubAmp(Strip(Lower(s))), IsLowerAlnum)

\* BRAND_LOGOS, app.py:134-154, in insertion order: <<key, file name>>
BRAND_LOGOS ==
    << <<<<"c", "o", "n", "r", "a", "d">>, "conrad.png">>,
       <<<<"e", "m", "b", "a", "s", "s", "y", "s", "u", "i", "t", "e", "s">>, "embassy_suites.png">>,
       <<<<"g", "r", "a", "n", "d", "h", "y", "a", "t", "t">>, "grand_hyatt.png">>,
       <<<<"h", "y", "a", "t", "t", "r", "e", "g", "e", "n", "c", "y">>, "hyatt_regency.png">>,
       <<<<"p", "a", "r", "k", "h", "y", "a", "t", "t">>, "park_hyatt.png">>,
       <<<<"t", "h", "o", "m", "p", "s", "o", "n">>, "thompson.png">>,
       <<<<"j", "w", "m", "a", "r", "r", "i", "o", "t", "t">>, "jw_marriott.png">>,
       <<<<"r", "e", "n", "a", "i", "s", "s", "a", "n", "c", "e">>, "renaissance.png">>,
       <<<<"r", "e", "s", "i", "d", "e", "n", "c", "e", "i", "n", "n">>, "residence_inn.png">>,
       <<<<"s", "t", "r", "e", "g", "i", "s">>, "st_regis.png">>,
       <<<<"r", "i", "t", "z", "c", "a", "r", "l", "t", "o", "n">>, "ritz_carlton.png">>,
       <<<<"w", "e", "s", "t", "i", "n">>, "westin.png">>,
       <<<<"e", "d", "i", "t", "i", "o", "n">>, "edition.png">>,
       <<<<"i", "n", "t", "e", "r", "c", "o", "n", "t", "i", "n", "e", "n", "t", "a", "l">>, "intercontinental.png">>,
       <<<<"k", "i", "m", "p", "t", "o", "n">>, "kimpton.png">>,
       <<<<"m", "a", "n", "d", "a", "r", "i", "n", "o", "r", "i", "e", "n", "t", "a", "l">>, "mandarin_oriental.png">>,
       <<<<"f", "o", "u", "r", "s", "e", "a", "s", "o", "n", "s">>, "four_seasons.png">>,
       <<<<"w", "a", "l", "d", "o", "r", "f", "a", "s", "t", "o", "r", "i", "a">>, "waldorf_astoria.png">>,
       <<<<"w", "h", "o", "t", "e", "l", "s">>, "w_hotels.png">> >>

\* ALIAS, app.py:155-164, in insertion order: <<raw, key of BRAND_LOGOS>>
ALIAS ==
    << <<<<"s", "t", ".", "r", "e", "g", "i", "s">>, <<"s", "t", "r", "e", "g", "i", "s">>>>,
       <<<<"s", "a", "i", "n", "t", "r", "e", "g", "i", "s">>, <<"s", "t", "r", "e", "g", "i", "s">>>>,
       <<<<"r", "i", "t", "z", "-", "c", "a", "r", "l", "t", "o", "n">>, <<"r", "i", "t", "z", "c", "a", "r", "l", "t", "o", "n">>>>,
       <<<<"r", "i", "t", "z">>, <<"r", "i", "t", "z", "c", "a", "r", "l", "t", "o", "n">>>>,
       <<<<"r", "e", "s", "i", "d", "e", "n", "c", "e", "i", "n", "n", "b", "y", "m", "a", "r", "r", "i", "o", "t", "t">>, <<"r", "e", "s", "i", "d", "e", "n", "c", "e", "i", "n", "n">>>>,
       <<<<"r", "e", "s", "i", "d", "e", "n", "c", "e", "i", "n", "n", "m", "a", "r", "r", "i", "o", "t", "t">>, <<"r", "e", "s", "i", "d", "e", "n", "c", "e", "i", "n", "n">>>>,
       <<<<"f", "o", "u", "r", " ", "s", "e", "a", "s", "o", "n", "s">>, <<"f", "o", "u", "r", "s", "e", "a", "s", "o", "n", "s">>>>,
       <<<<"i", "n", "t", "e", "r", "-", "c", "o", "n", "t", "i", "n", "e", "n", "t", "a", "l">>, <<"i", "n", "t", "e", "r", "c", "o", "n", "t", "i", "n", "e", "n", "t", "a", "l">>>> >>

\* `k in BRAND_LOGOS`
InBrandLogos(k) == \E i \in DOMAIN BRAND_LOGOS : BRAND_LOGOS[i][1] = k

\* BRAND_LOGOS[k]
BrandLogo(k) == BRAND_LOGOS[CHOOSE i \in DOMAIN BRAND_LOGOS : BRAND_LOGOS[i][1] = k][2]

\* _alias(tok) = ALIAS.get(tok, tok), app.py:165
_alias(tok) ==
    IF \E i \in DOMAIN ALIAS : ALIAS[i][1] = tok
    THEN ALIAS[CHOOSE i \in DOMAIN ALIAS : ALIAS[i][1] = tok][2]
    ELSE tok

\* f"{SITE_BASE}/yocto/logos/{fname}"
LogoUrl(fname) == <<"SITE_BASE", "/yocto/logos/", fname>>

FallbackLogo == "fallback_logo.png"

\* a property: the five fields the resolver reads; PyNone where a field is absent
Property(brand, chain, type, subtype, name) ==
    [brand |-> brand, chain |-> chain, type |-> type, subtype |-> subtype, name |-> name]

\* truthiness of a field value: None and "" are falsy
Truthy(v) == v # PyNone /\ v # <<>>

\* str(v or "")
StrOrEmpty(v) == IF Truthy(v) THEN v ELSE <<>>

\* the result of a search: the file name, the return statement that produced it
\* (its line in app.py), the candidate it was found for and whether _alias changed
\* the token
Found(fname, line, cand, aliased) ==
    [kind |-> "ok", url |-> LogoUrl(fname), line |-> line, cand |-> cand, aliased |-> aliased]

NotFound == [kind |-> "none", url |-> <<>>, line |-> 0, cand |-> <<>>, aliased |-> FALSE]

KeyError == [kind |-> "raise", url |-> <<>>, line |-> 175, cand |-> <<>>, aliased |-> FALSE]

\* faulty variant of CandLogo: BRAND_LOGOS[tok] is read without the test of line 174
CandLogo_NoTest(cand) ==
    LET tok == _alias(_norm(cand))
    IN IF InBrandLogos(tok) THEN Found(BrandLogo(tok), 175, cand, tok # _norm(cand)) ELSE KeyError

\* faulty variant of CandLogo: of the keys the token contains, the last of the table
\* is taken
CandLogo_LastKey(cand) ==
    LET tok == _alias(_norm(cand))
        keyHits == {i \in DOMAIN BRAND_LOGOS : Contains(BRAND_LOGOS[i][1], tok)}
        aliasHits == {i \in DOMAIN ALIAS : Contains(ALIAS[i][1], tok) /\ InBrandLogos(ALIAS[i][2])}
        first(S) == CHOOSE i \in S : \A j \in S : i <= j
        last(S) == CHOOSE i \in S : \A j \in S : i >= j
    IN IF InBrandLogos(tok) THEN Found(BrandLogo(tok), 175, cand, tok # _norm(cand))
       ELSE IF keyHits # {} THEN Found(BRAND_LOGOS[last(keyHits)][2], 178, cand, tok # _norm(cand))
       ELSE IF aliasHits # {} THEN Found(BrandLogo(ALIAS[first(aliasHits)][2]), 181, cand, tok # _norm(cand))
       ELSE NotFound

\* faulty variant of CandLogo: the aliases are not searched in the token
CandLogo_NoAliasSearch(cand) ==
    LET tok == _alias(_norm(cand))
        keyHits == {i \in DOMAIN BRAND_LOGOS : Contains(BRAND_LOGOS[i][1], tok)}
        first(S) == CHOOSE i \in S : \A j \in S : i <= j
    IN IF InBrandLogos(tok) THEN Found(BrandLogo(tok), 175, cand, tok # _norm(cand))
       ELSE IF keyHits # {} THEN Found(BRAND_LOGOS[first(keyHits)][2], 178, cand, tok # _norm(cand))
       ELSE NotFound

\* the body of the loop over the candidates, app.py:173-181, for one candidate
CandLogo(cand) ==
    LET tok == _alias(_norm(cand))
        keyHits == {i \in DOMAIN BRAND_LOGOS : Contains(BRAND_LOGOS[i][1], tok)}
        aliasHits == {i \in DOMAIN ALIAS : Contains(ALIAS[i][1], tok) /\ InBrandLogos(ALIAS[i][2])}
        first(S) == CHOOSE i \in S : \A j \in S : i <= j
    IN IF InBrandLogos(tok) THEN Found(BrandLogo(tok), 175, cand, tok # _norm(cand))
       ELSE IF keyHits # {} THEN Found(BRAND_LOGOS[first(keyHits)][2], 178, cand, tok # _norm(cand))
       ELSE IF aliasHits # {} THEN Found(BrandLogo(ALIAS[first(aliasHits)][2]), 181, cand, tok # _norm(cand))
       ELSE NotFound

\* the loop, app.py:172-182
RECURSIVE LogoLoop(_)
LogoLoop(candidates) ==
    IF candidates = <<>> THEN Found(FallbackLogo, 182, <<>>, FALSE)
    ELSE LET r == CandLogo(Head(candidates))
         IN IF r.kind = "none" THEN LogoLoop(Tail(candidates)) ELSE r

\* faulty variant of Candidates: the display name is tried first
Candidates_NameFirst(p) ==
    <<StrOrEmpty(p.name)>> \o SelectSeq(<<p.brand, p.chain, p.type, p.subtype>>, Truthy)

\* candidates, app.py:171
Candidates(p) ==
    SelectSeq(<<p.brand, p.chain, p.type, p.subtype>>, Truthy) \o <<StrOrEmpty(p.name)>>

\* faulty variant of IsWName: the display name is never taken for a W hotel
IsWName_Never(name) == FALSE

\* name.strip().lower().startswith("w "), app.py:169
IsWName(name) == StartsWith(Lower(Strip(name)), <<"w", " ">>)

\* logo_for_property(p), app.py:167-182
logo_for_property(p) ==
    LET name == StrOrEmpty(p.name)
    IN IF IsWName(name) THEN Found(BrandLogo(<<"w", "h", "o", "t", "e", "l", "s">>), 170, name, FALSE)
       ELSE LogoLoop(Candidates(p))

RitzCarltonBoston == <<"T", "h", "e", " ", "R", "i", "t", "z", "-", "C", "a", "r", "l", "t", "o", "n", ",", " ", "B", "o", "s", "t", "o", "n">>

ObscureBoutiqueInn == <<"O", "b", "s", "c", "u", "r", "e", " ", "B", "o", "u", "t", "i", "q", "u", "e", " ", "I", "n", "n">>

WAustin == <<"W", " ", "A", "u", "s", "t", "i", "n">>

\* values of the brand field
BrandTexts ==
    { PyNone,
      <<>>,
      <<"T", "h", "e", " ", "R", "i", "t", "z", "-", "C", "a", "r", "l", "t", "o", "n", ",", " ", "B", "o", "s", "t", "o", "n">>,
      <<"O", "b", "s", "c", "u", "r", "e", " ", "B", "o", "u", "t", "i", "q", "u", "e", " ", "I", "n", "n">>,
      <<"W", "e", "s", "t", "i", "n">>,
      <<"S", "t", ".", " ", "R", "e", "g", "i", "s">>,
      <<"S", "a", "i", "n", "t", " ", "R", "e", "g", "i", "s">>,
      <<"R", "i", "t", "z", " ", "P", "a", "r", "i", "s">>,
      <<"J", "W", " ", "M", "a", "r", "r", "i", "o", "t", "t", " ", "&", " ", "W", "e", "s", "t", "i", "n">>,
      <<"I", "n", "t", "e", "r", "-", "C", "o", "n", "t", "i", "n", "e", "n", "t", "a", "l">>,
      <<"w", "h", "o", "t", "e", "l", "s">>,
      <<"S", "a", "i", "n", "t", " ", "R", "e", "g", "i", "s", " ", "N", "Y", "C">> }
        \cup {ALIAS[i][1] : i \in DOMAIN ALIAS}

\* values of the chain field
ChainTexts ==
    { PyNone,
      <<"M", "a", "r", "r", "i", "o", "t", "t">>,
      <<"K", "i", "m", "p", "t", "o", "n">>,
      <<"F", "o", "u", "r", " ", "S", "e", "a", "s", "o", "n", "s">> }

\* values of the type field
TypeTexts ==
    { PyNone,
      <<"h", "o", "t", "e", "l">>,
      <<"E", "D", "I", "T", "I", "O", "N">> }

\* values of the subtype field
SubtypeTexts ==
    { PyNone,
      <<>>,
      <<"T", "h", "o", "m", "p", "s", "o", "n", " ", "H", "o", "t", "e", "l", "s">> }

\* values of the name field
NameTexts ==
    { PyNone,
      <<>>,
      <<"W", " ", "A", "u", "s", "t", "i", "n">>,
      <<" ", "w", " ", " ", "a", "u", "s", "t", "i", "n">>,
      <<"W">>,
      <<"W", "e", "s", "t", "i", "n", " ", "A", "u", "s", "t", "i", "n">>,
      <<"O", "b", "s", "c", "u", "r", "e", " ", "B", "o", "u", "t", "i", "q", "u", "e", " ", "I", "n", "n">>,
      <<"W", "a", "l", "d", "o", "r", "f", " ", "A", "s", "t", "o", "r", "i", "a">> }

\* the inputs of one call of logo_for_property: a property
InitLogo ==
    /\ TraxOff
    /\ \E brand \in BrandTexts, chain \in ChainTexts, type \in TypeTexts,
          subtype \in SubtypeTexts, name \in NameTexts :
          call = [fn |-> "logo_for_property",
                  p |-> Property(brand, chain, type, subtype, name),
                  out |-> Pending]

\* the call
LogoCall ==
    /\ call.fn = "logo_for_property"
    /\ call.out = Pending
    /\ call' = [call EXCEPT !.out = logo_for_property(call.p)]
    /\ UNCHANGED traxVars

SpecLogo == InitLogo /\ [][LogoCall]_vars

(***************************************************************************)
(* Claims about logo_for_property                                          *)
(***************************************************************************)
\* a call of the logo resolver has returned
IsLogoCall == call.fn = "logo_for_property" /\ call.out # Pending

\* the file names a field text matches by some strategy: its token is a key of the
\* table, contains a key of the table, or contains an alias of a key
Matches(text) ==
    LET tok == _alias(_norm(text))
    IN {BRAND_LOGOS[i][2] : i \in {j \in DOMAIN BRAND_LOGOS : Contains(BRAND_LOGOS[j][1], tok)}}
         \cup {BrandLogo(ALIAS[i][2]) : i \in {j \in DOMAIN ALIAS : Contains(ALIAS[j][1], tok)}}

\* the candidate fields of a property in priority order
PriorityFields(p) == <<p.brand, p.chain, p.type, p.subtype, p.name>>

\* the property with the fields after the i-th of the priority order removed
BlankAfter(p, i) ==
    [p EXCEPT !.chain = IF i < 2 THEN PyNone ELSE @,
              !.type = IF i < 3 THEN PyNone ELSE @,
              !.subtype = IF i < 4 THEN PyNone ELSE @,
              !.name = IF i < 5 THEN PyNone ELSE @]

\* the field is present, not empty and matches
FieldMatches(v) == Truthy(v) /\ Matches(v) # {}

\* the display name starts with the token "W "
NameStartsWithW(p) == p.name # PyNone /\ StartsWith(p.name, <<"W", " ">>)

\* the display name is taken for a W hotel (leading blanks and case aside)
NameIsW(p) == p.name # PyNone /\ StartsWith(Lower(Strip(p.name)), <<"w", " ">>)

\* C12: the logo resolver raises for no property and returns a non-empty URL; when no
\* field matches by any strategy the URL is that of the fallback logo.
C12_LogoNeverMissing ==
    IsLogoCall =>
        /\ call.out.kind = "ok"
        /\ call.out.url # <<>> /\ call.out.url[3] # ""
        /\ (~NameIsW(call.p) /\ \A i \in 1..5 : ~FieldMatches(PriorityFields(call.p)[i]))
              => call.out.url = LogoUrl("fallback_logo.png")

\* brand "Obscure Boutique Inn", nothing else that matches: the fallback logo
C12_Witness ==
    /\ IsLogoCall
    /\ call.p.brand = ObscureBoutiqueInn
    /\ call.p.chain = PyNone /\ call.p.subtype = <<>>
    /\ call.p.name = ObscureBoutiqueInn
    /\ call.out.url = LogoUrl("fallback_logo.png")

\* C13: a display name that starts with "W " gets the W Hotels logo, whatever the
\* other fields name.
C13_WNameGetsWHotels ==
    (IsLogoCall /\ NameStartsWithW(call.p)) =>
        /\ call.out.url = LogoUrl("w_hotels.png")
        /\ call.out.line = 170

\* "W Austin" with the brand Westin and a chain that names a third brand
C13_Witness ==
    /\ IsLogoCall
    /\ call.p.name = WAustin
    /\ call.p.brand = <<"W", "e", "s", "t", "i", "n">>
    /\ FieldMatches(call.p.chain)
    /\ call.out.url = LogoUrl("w_hotels.png")

\* C14, as stated: brand "The Ritz-Carlton, Boston" gets the Ritz-Carlton logo through
\* alias canonicalization, before the substring search.
C14_RitzViaAlias ==
    (IsLogoCall /\ call.p.brand = RitzCarltonBoston /\ ~NameIsW(call.p)) =>
        /\ call.out.url = LogoUrl("ritz_carlton.png")
        /\ call.out.aliased
        /\ call.out.line = 175

\* C14, amended: brand "The Ritz-Carlton, Boston" gets the Ritz-Carlton logo through
\* the substring search over the keys of the table (the token contains the key
\* "ritzcarlton"); alias canonicalization leaves the token as it is.
C14_RitzViaKeySubstring ==
    (IsLogoCall /\ call.p.brand = RitzCarltonBoston /\ ~NameIsW(call.p)) =>
        /\ call.out.url = LogoUrl("ritz_carlton.png")
        /\ ~call.out.aliased
        /\ call.out.line = 178
        /\ _norm(RitzCarltonBoston) = <<"t", "h", "e", "r", "i", "t", "z", "c", "a", "r", "l", "t", "o", "n",
                                        "b", "o", "s", "t", "o", "n">>

\* the brand text with fields of lower priority that name other brands
C14_Witness ==
    /\ IsLogoCall
    /\ call.p.brand = RitzCarltonBoston
    /\ call.p.chain # PyNone /\ FieldMatches(call.p.chain)
    /\ ~NameIsW(call.p)
    /\ call.out.url = LogoUrl("ritz_carlton.png")

\* C15: when the name does not start with "W ", the logo is one matched by the first
\* of brand, chain, type, subtype, name that is present, not empty and matches by some
\* strategy; the fields after it play no part; with no such field it is the fallback.
C15_FirstMatchingFieldWins ==
    (IsLogoCall /\ ~NameIsW(call.p)) =>
        LET fields == PriorityFields(call.p)
            hits == {i \in 1..5 : FieldMatches(fields[i])}
        IN IF hits = {} THEN call.out.url = LogoUrl("fallback_logo.png")
           ELSE LET i == CHOOSE k \in hits : \A j \in hits : k <= j
                IN /\ call.out.url \in {LogoUrl(f) : f \in Matches(fields[i])}
                   /\ call.out.cand = fields[i]
                   /\ call.out = logo_for_property(BlankAfter(call.p, i))

\* brand absent, chain without a match, type and name matching different logos: the
\* type decides
C15_Witness ==
    /\ IsLogoCall /\ ~NameIsW(call.p)
    /\ call.p.brand = PyNone
    /\ Truthy(call.p.chain) /\ ~FieldMatches(call.p.chain)
    /\ FieldMatches(call.p.type)
    /\ FieldMatches(call.p.name) /\ Matches(call.p.name) # Matches(call.p.type)
    /\ call.out.url = LogoUrl("edition.png")

(***************************************************************************)
(* The aircraft name canonicalizer of the yocto service                    *)
(* (src/yocto/app.py:472-506): aircraft_pretty                             *)
(***************************************************************************)
\* str.upper() on one character
AsciiUpperChar(c) ==
    IF \E i \in DOMAIN LowerLetters : LowerLetters[i] = c
    THEN UpperLetters[CHOOSE i \in DOMAIN LowerLetters : LowerLetters[i] = c]
    ELSE c

\* str.upper()
AsciiUpper(s) == [i \in 1..Len(s) |-> AsciiUpperChar(s[i])]

\* the class \d
IsDigit(c) == c \in Range(Digits)

\* the class \w, on lower-case text
IsWordChar(c) == IsLowerAlnum(c) \/ c = "_"

\* \d{3} at position i of s
ThreeDigitsAt(s, i) == i + 2 <= Len(s) /\ IsDigit(s[i]) /\ IsDigit(s[i + 1]) /\ IsDigit(s[i + 2])

\* [\s-]?(\d{3}) at position i of s: the position of the digits, 0 when it does not match
SepDigitsAt(s, i) ==
    IF i <= Len(s) /\ s[i] \in {" ", "-"} /\ ThreeDigitsAt(s, i + 1) THEN i + 1
    ELSE IF ThreeDigitsAt(s, i) THEN i
    ELSE 0

\* (e|erj)[\s-]?(\d{3}) at position i of s: the position of the digits, 0 for no match
EmbraerAt(s, i) ==
    IF s[i] # "e" THEN 0
    ELSE IF SepDigitsAt(s, i + 1) # 0 THEN SepDigitsAt(s, i + 1)
    ELSE IF i + 2 <= Len(s) /\ s[i + 1] = "r" /\ s[i + 2] = "j" THEN SepDigitsAt(s, i + 3)
    ELSE 0

\* re.search(r"(e|erj)[\s-]?(\d{3})", s): group 2 of the leftmost match, <<>> for None
EmbraerSearch(s) ==
    LET hits == {i \in 1..Len(s) : EmbraerAt(s, i) # 0}
    IN IF hits = {} THEN <<>>
       ELSE LET i == CHOOSE k \in hits : \A j \in hits : k <= j
            IN SubSeq(s, EmbraerAt(s, i), EmbraerAt(s, i) + 2)

\* the vendor words of the fallback, in the order of the alternation
VendorWords ==
    << <<"b", "o", "e", "i", "n", "g">>,
       <<"a", "i", "r", "b", "u", "s">>,
       <<"e", "m", "b", "r", "a", "e", "r">>,
       <<"b", "o", "m", "b", "a", "r", "d", "i", "e", "r">>,
       <<"c", "a", "n", "a", "d", "a", "i", "r">> >>

Series == <<"s", "e", "r", "i", "e", "s">>

\* the length of the match of (boeing|airbus|embraer|bombardier|canadair|\bseries\b)
\* at position i of s, 0 for no match
VendorAt(s, i) ==
    LET rest == SubSeq(s, i, Len(s))
        words == {k \in DOMAIN VendorWords : StartsWith(rest, VendorWords[k])}
    IN IF words # {} THEN Len(VendorWords[CHOOSE k \in words : TRUE])
       ELSE IF /\ StartsWith(rest, Series)
               /\ (i = 1 \/ ~IsWordChar(s[i - 1]))
               /\ (i + Len(Series) > Len(s) \/ ~IsWordChar(s[i + Len(Series)]))
            THEN Len(Series)
       ELSE 0

\* re.sub(r"(boeing|...|\bseries\b)", "", s), from position i on
RECURSIVE SubVendor(_, _)
SubVendor(s, i) ==
    IF i > Len(s) THEN <<>>
    ELSE IF VendorAt(s, i) # 0 THEN SubVendor(s, i + VendorAt(s, i))
    ELSE <<s[i]>> \o SubVendor(s, i + 1)

\* the class [a-z0-9\- ]
IsCleanChar(c) == IsLowerAlnum(c) \/ c \in {"-", " "}

\* faulty variant of Fallback: the text of the input is not used when nothing is left
Fallback_NoOriginal(name, s) ==
    AsciiUpper(Strip(SelectSeq(SubVendor(s, 1), IsCleanChar)))

\* the fallback, app.py:503-505
Fallback(name, s) ==
    LET s2 == AsciiUpper(Strip(SelectSeq(SubVendor(s, 1), IsCleanChar)))
    IN IF s2 # <<>> THEN s2 ELSE name

\* faulty variant of Boeing737: the bare family is tested before the sub-variants
Boeing737_FamilyFirst(s) == <<"B", "7", "3", "7">>

\* the 737 branch, app.py:490-494
Boeing737(s) ==
    IF Contains(<<"9", "0", "0">>, s) \/ Contains(<<"m", "a", "x", " ", "9">>, s) THEN <<"B", "7", "3", "7", "-", "9", "0", "0">>
    ELSE IF Contains(<<"8", "0", "0">>, s) \/ Contains(<<"m", "a", "x", " ", "8">>, s) THEN <<"B", "7", "3", "7", "-", "8", "0", "0">>
    ELSE IF Contains(<<"7", "0", "0">>, s) THEN <<"B", "7", "3", "7", "-", "7", "0", "0">>
    ELSE <<"B", "7", "3", "7">>

\* the CRJ branch, app.py:496-500
Crj(s) ==
    IF Contains(<<"9", "0", "0">>, s) THEN <<"C", "R", "J", " ", "9", "0", "0">>
    ELSE IF Contains(<<"7", "0", "0">>, s) THEN <<"C", "R", "J", " ", "7", "0", "0">>
    ELSE IF Contains(<<"2", "0", "0">>, s) THEN <<"C", "R", "J", " ", "2", "0", "0">>
    ELSE <<"C", "R", "J">>

\* aircraft_pretty(name), app.py:472-506; name is a string or None
aircraft_pretty(name) ==
    LET s == Lower(StrOrEmpty(name))
    IN
    IF s = <<>> THEN <<>>
    ELSE IF Contains(<<"a", "3", "2", "1">>, s) THEN (IF Contains(<<"n", "e", "o">>, s) THEN <<"A", "3", "2", "1", "n", "e", "o">> ELSE <<"A", "3", "2", "1">>)
    ELSE IF Contains(<<"a", "2", "2", "0", "-", "3", "0", "0">>, s) \/ (Contains(<<"a", "2", "2", "0">>, s) /\ Contains(<<"3", "0", "0">>, s)) THEN <<"A", "2", "2", "0", "-", "3", "0", "0">>
    ELSE IF Contains(<<"a", "2", "2", "0", "-", "1", "0", "0">>, s) \/ (Contains(<<"a", "2", "2", "0">>, s) /\ Contains(<<"1", "0", "0">>, s)) THEN <<"A", "2", "2", "0", "-", "1", "0", "0">>
    ELSE IF Contains(<<"a", "3", "1", "9">>, s) THEN <<"A", "3", "1", "9">>
    ELSE IF Contains(<<"a", "3", "2", "0">>, s) THEN <<"A", "3", "2", "0">>
    ELSE IF Contains(<<"a", "3", "3", "0">>, s) THEN <<"A", "3", "3", "0">>
    ELSE IF Contains(<<"a", "3", "5", "0">>, s) THEN <<"A", "3", "5", "0">>
    ELSE IF Contains(<<"7", "6", "7", "-", "4", "0", "0">>, s) \/ (Contains(<<"7", "6", "7">>, s) /\ Contains(<<"4", "0", "0">>, s)) THEN <<"B", "7", "6", "7", "-", "4", "0", "0">>
    ELSE IF Contains(<<"7", "6", "7", "-", "3", "0", "0">>, s) \/ (Contains(<<"7", "6", "7">>, s) /\ Contains(<<"3", "0", "0">>, s)) THEN <<"B", "7", "6", "7", "-", "3", "0", "0">>
    ELSE IF Contains(<<"7", "5", "7", "-", "3", "0", "0">>, s) \/ (Contains(<<"7", "5", "7">>, s) /\ Contains(<<"3", "0", "0">>, s)) THEN <<"B", "7", "5", "7", "-", "3", "0", "0">>
    ELSE IF Contains(<<"7", "5", "7", "-", "2", "0", "0">>, s) \/ (Contains(<<"7", "5", "7">>, s) /\ Contains(<<"2", "0", "0">>, s)) THEN <<"B", "7", "5", "7", "-", "2", "0", "0">>
    ELSE IF Contains(<<"7", "8", "7", "-", "1", "0">>, s) \/ (Contains(<<"7", "8", "7">>, s) /\ Contains(<<"1", "0">>, s)) THEN <<"B", "7", "8", "7", "-", "1", "0">>
    ELSE IF Contains(<<"7", "8", "7", "-", "9">>, s) \/ (Contains(<<"7", "8", "7">>, s) /\ Contains(<<"9">>, s)) THEN <<"B", "7", "8", "7", "-", "9">>
    ELSE IF Contains(<<"7", "8", "7", "-", "8">>, s) \/ (Contains(<<"7", "8", "7">>, s) /\ Contains(<<"8">>, s)) THEN <<"B", "7", "8", "7", "-", "8">>
    ELSE IF Contains(<<"7", "3", "7">>, s) THEN Boeing737(s)
    ELSE IF Contains(<<"c", "r", "j">>, s) THEN Crj(s)
    ELSE IF EmbraerSearch(s) # <<>> THEN <<"E">> \o EmbraerSearch(s)
    ELSE Fallback(StrOrEmpty(name), s)

\* most words in an aircraft description
MaxWords == 3

\* words of aircraft descriptions
AircraftWords ==
    { <<"B", "o", "e", "i", "n", "g">>,
      <<"7", "3", "7", "-", "8", "0", "0">>,
      <<"7", "3", "7">>,
      <<"8", "0", "0">>,
      <<"(", "W", "i", "n", "g", "l", "e", "t", "s", ")">>,
      <<"P", "a", "s", "s", "e", "n", "g", "e", "r">>,
      <<"9", "0", "0">>,
      <<"7", "8", "7", "-", "9">>,
      <<"A", "3", "2", "1", "n", "e", "o">>,
      <<"E", "m", "b", "r", "a", "e", "r">>,
      <<"E", "R", "J", "-", "1", "7", "5">>,
      <<"S", "e", "r", "i", "e", "s">>,
      <<"7", "7", "7">>,
      <<"(", "?", ")">>,
      <<"7", "8", "7">> }

\* descriptions of at most n words, separated by one blank
RECURSIVE Descriptions(_)
Descriptions(n) ==
    IF n = 0 THEN {<<>>}
    ELSE LET shorter == Descriptions(n - 1)
         IN shorter \cup {IF d = <<>> THEN w ELSE d \o <<" ">> \o w : d \in shorter, w \in AircraftWords}

\* a description of a 737-800 as the flight search returns it
Boeing737800Winglets == <<"B", "o", "e", "i", "n", "g", " ", "7", "3", "7", "-", "8", "0", "0", " ", "(", "W", "i", "n", "g", "l", "e", "t", "s", ")", " ", "P", "a", "s", "s", "e", "n", "g", "e", "r">>

\* the inputs of one call of aircraft_pretty: None, blanks or a description
InitAircraft ==
    /\ TraxOff
    /\ \E name \in {PyNone, <<" ">>, Boeing737800Winglets} \cup Descriptions(MaxWords) :
          call = [fn |-> "aircraft_pretty", name |-> name, out |-> Pending]

\* the call
AircraftCall ==
    /\ call.fn = "aircraft_pretty"
    /\ call.out = Pending
    /\ call' = [call EXCEPT !.out = [kind |-> "ok", text |-> aircraft_pretty(call.name)]]
    /\ UNCHANGED traxVars

SpecAircraft == InitAircraft /\ [][AircraftCall]_vars

(***************************************************************************)
(* Claims about aircraft_pretty                                            *)
(***************************************************************************)
\* a call of the canonicalizer has returned
IsAircraftCall == call.fn = "aircraft_pretty" /\ call.out # Pending

\* markers of the families other than the 737 and of the sub-variants other than 800
OtherMarkers ==
    { <<"a", "3", "2", "1">>,
      <<"a", "2", "2", "0">>,
      <<"a", "3", "1", "9">>,
      <<"a", "3", "2", "0">>,
      <<"a", "3", "3", "0">>,
      <<"a", "3", "5", "0">>,
      <<"7", "6", "7">>,
      <<"7", "5", "7">>,
      <<"7", "8", "7">>,
      <<"c", "r", "j">>,
      <<"e", "r", "j">>,
      <<"9", "0", "0">>,
      <<"7", "0", "0">>,
      <<"m", "a", "x", " ", "9">>,
      <<"1", "0", "0">>,
      <<"2", "0", "0">>,
      <<"3", "0", "0">>,
      <<"4", "0", "0">> }

\* the description names the 737 and the sub-variant 800 and carries no other marker
Names737800Only(name) ==
    /\ name # PyNone
    /\ Contains(<<"7", "3", "7">>, Lower(name))
    /\ Contains(<<"8", "0", "0">>, Lower(name))
    /\ \A mk \in OtherMarkers : ~Contains(mk, Lower(name))

\* C16: a description with "737" and the marker "800" and no other family or
\* sub-variant marker gets the code B737-800, not B737.
C16_Boeing737800 ==
    (IsAircraftCall /\ Names737800Only(call.name)) => call.out.text = <<"B", "7", "3", "7", "-", "8", "0", "0">>

\* "Boeing 737-800 (Winglets) Passenger"
C16_Witness ==
    /\ IsAircraftCall
    /\ call.name = Boeing737800Winglets
    /\ Names737800Only(call.name)
    /\ call.out.text = <<"B", "7", "3", "7", "-", "8", "0", "0">>

\* the codes the rules return; the Embraer rule returns E and three digits
CanonicalCodes ==
    { <<"A", "3", "2", "1", "n", "e", "o">>,
      <<"A", "3", "2", "1">>,
      <<"A", "2", "2", "0", "-", "3", "0", "0">>,
      <<"A", "2", "2", "0", "-", "1", "0", "0">>,
      <<"A", "3", "1", "9">>,
      <<"A", "3", "2", "0">>,
      <<"A", "3", "3", "0">>,
      <<"A", "3", "5", "0">>,
      <<"B", "7", "6", "7", "-", "4", "0", "0">>,
      <<"B", "7", "6", "7", "-", "3", "0", "0">>,
      <<"B", "7", "5", "7", "-", "3", "0", "0">>,
      <<"B", "7", "5", "7", "-", "2", "0", "0">>,
      <<"B", "7", "8", "7", "-", "1", "0">>,
      <<"B", "7", "8", "7", "-", "9">>,
      <<"B", "7", "8", "7", "-", "8">>,
      <<"B", "7", "3", "7", "-", "9", "0", "0">>,
      <<"B", "7", "3", "7", "-", "8", "0", "0">>,
      <<"B", "7", "3", "7", "-", "7", "0", "0">>,
      <<"B", "7", "3", "7">>,
      <<"C", "R", "J", " ", "9", "0", "0">>,
      <<"C", "R", "J", " ", "7", "0", "0">>,
      <<"C", "R", "J", " ", "2", "0", "0">>,
      <<"C", "R", "J">> }

IsCanonicalCode(t) ==
    \/ t \in CanonicalCodes
    \/ Len(t) = 4 /\ t[1] = "E" /\ IsDigit(t[2]) /\ IsDigit(t[3]) /\ IsDigit(t[4])

\* a cleaned text: capitals, digits, hyphens and inner blanks
IsCleanedText(t) ==
    /\ t # <<>>
    /\ \A i \in 1..Len(t) : t[i] \in Range(UpperLetters) \cup Range(Digits) \cup {"-", " "}
    /\ t[1] # " " /\ t[Len(t)] # " "

\* C17: the canonicalizer does not raise; None and "" give ""; a non-empty input gives
\* a non-empty string: a canonical code, else a cleaned text, else the input itself.
C17_AircraftPrettyTotal ==
    IsAircraftCall =>
        /\ call.out.kind = "ok"
        /\ call.out.text # PyNone
        /\ call.name \in {PyNone, <<>>} => call.out.text = <<>>
        /\ call.name \notin {PyNone, <<>>} =>
              /\ call.out.text # <<>>
              /\ IsCanonicalCode(call.out.text) \/ IsCleanedText(call.out.text) \/ call.out.text = call.name

\* a description of which the clean-up leaves nothing comes back as it is
C17_Witness ==
    /\ IsAircraftCall
    /\ call.name = <<"B", "o", "e", "i", "n", "g", " ", "(", "?", ")">>
    /\ call.out.text = call.name
    /\ ~IsCleanedText(call.out.text) /\ ~IsCanonicalCode(call.out.text)

(***************************************************************************)
(* The airline descriptor of /api/states (src/Trax/server/app.py:236-278)  *)
(* Records carry the two colour properties here; primary_color is Missing  *)
(* when the record has no such property, <<>> when it is null or "".       *)
(***************************************************************************)
Missing == <<"<missing>">>

ColorRec(icao, iata, name, primary_color, color) ==
    [icao |-> icao, iata |-> iata, name |-> name, primary_color |-> primary_color, color |-> color]

\* colours as they stand in a reference file
PrimaryColors == {Missing, <<>>, <<"#", "p">>, <<" ", "#", "p", " ">>}

Colors == {<<>>, <<"#", "c">>}

\* a record with an IATA code only
RecV == Rec(<<>>, <<"b", "b">>, <<"v">>)

ColoredRecords ==
    {ColorRec(r.icao, r.iata, r.name, p, c) : r \in {RecX, RecZ, RecW, RecV}, p \in PrimaryColors, c \in Colors}

\* faulty variant of CleanPrimaryColor: colour is never copied
CleanPrimaryColor_Never(r) == r

\* clean(rec), app.py:57-58: primary_color defaults to color
CleanPrimaryColor(r) ==
    IF r.primary_color = Missing /\ r.color # <<>>
    THEN [r EXCEPT !.primary_color = r.color]
    ELSE r

\* clean(rec), app.py:51-59, on a record with colours
CleanColored(r) == CleanPrimaryColor(clean(JRec(r)))

\* al.get(k) or "": a missing property reads as None
GetOrEmpty(v) == IF v = Missing THEN <<>> ELSE v

\* x or None
OrNone(v) == IF v = <<>> THEN PyNone ELSE v

DefaultColor == <<"#", "6", "6", "6", "6", "6", "6">>

AssetUrl(kind, code) == IF code = PyNone THEN PyNone ELSE <<"/api/airline/", kind, "/">> \o code

\* the "airline" object of one output state, app.py:250-277
AirlineDescriptor(al) ==
    IF al.kind # "rec"
    THEN [name |-> PyNone, iata |-> PyNone, icao |-> PyNone, primary_color |-> PyNone,
          icon_url |-> PyNone, logo_url |-> PyNone]
    ELSE LET iata == OrNone(Upper(GetOrEmpty(al.rec.iata)))
             icao == OrNone(Upper(GetOrEmpty(al.rec.icao)))
             pcol == GetOrEmpty(al.rec.primary_color)
             code_for_assets == IF icao # PyNone THEN icao ELSE iata
         IN [name |-> OrNone(al.rec.name),
             iata |-> iata,
             icao |-> icao,
             primary_color |-> Strip(IF pcol # <<>> THEN pcol ELSE DefaultColor),
             icon_url |-> AssetUrl("icon", code_for_assets),
             logo_url |-> AssetUrl("logo", code_for_assets)]

\* callsigns of upstream states (s[1]); None where the upstream has none
StateCallsigns == {PyNone, <<"a", "b", "a", "B", " ">>, <<"A", "B", "B", "B">>, <<"B", "B", "B">>}

\* the inputs of one pass of the loop of states(): the records of the loaded file and
\* one upstream state (its callsign, and whether it has a position)
InitStates ==
    /\ TraxOff
    /\ \E r1 \in ColoredRecords, r2 \in ColoredRecords, callsign \in StateCallsigns, pos \in BOOLEAN :
          call = [fn |-> "states",
                  file |-> <<r1, r2>>,
                  callsign |-> callsign,
                  position |-> pos,
                  done |-> FALSE,
                  al |-> RNone,
                  out |-> <<>>]

\* the pass of the loop, app.py:241-278: a state without a position is skipped (no
\* output), otherwise the airline is resolved against the loaded table and described
StatesCall ==
    /\ call.fn = "states"
    /\ ~call.done
    /\ LET airlines == [i \in 1..Len(call.file) |-> CleanColored(call.file[i])]
           callsign == Strip(IF call.callsign = PyNone THEN <<>> ELSE call.callsign)
           al == _airline_for_callsign(callsign, IcaoIndexOf(airlines), IataIndexOf(airlines))
       IN call' = [call EXCEPT
                     !.done = TRUE,
                     !.al = al,
                     !.out = IF call.position THEN <<AirlineDescriptor(al)>> ELSE <<>>]
    /\ UNCHANGED traxVars

SpecStates == InitStates /\ [][StatesCall]_vars

(***************************************************************************)
(* Claims about the airline descriptor                                     *)
(***************************************************************************)
\* all six properties are null
Unresolved(d) ==
    /\ d.name = PyNone /\ d.iata = PyNone /\ d.icao = PyNone
    /\ d.primary_color = PyNone /\ d.icon_url = PyNone /\ d.logo_url = PyNone

\* the colour the claim names for a record of the file: its primary_color, else its
\* color, else the default (blanks around it aside)
ClaimedColor(r) ==
    IF GetOrEmpty(r.primary_color) # <<>> THEN Strip(r.primary_color)
    ELSE IF r.color # <<>> THEN Strip(r.color)
    ELSE DefaultColor

\* C18, as stated: every output state has a descriptor that is unresolved in all six properties,
\* or resolved: then the colour is not null and is the record's primary_color, else
\* its color, else "#666666", and both URLs are built from the record's ICAO code, or
\* from its IATA code when it has no ICAO code.
C18_ColorElseColor ==
    (call.fn = "states" /\ call.done) =>
        \A k \in 1..Len(call.out) :
            LET d == call.out[k]
            IN \/ call.al.kind # "rec" /\ Unresolved(d)
               \/ /\ call.al.kind = "rec"
                  /\ d.primary_color # PyNone
                  /\ \E i \in 1..Len(call.file) :
                        /\ CleanColored(call.file[i]) = call.al.rec
                        /\ d.primary_color = ClaimedColor(call.file[i])
                  /\ LET code == IF call.al.rec.icao # <<>> THEN call.al.rec.icao ELSE call.al.rec.iata
                     IN /\ code # <<>>
                        /\ d.icon_url = <<"/api/airline/", "icon", "/">> \o code
                        /\ d.logo_url = <<"/api/airline/", "logo", "/">> \o code

\* the colour of the amended claim
DescriptorColor(r) ==
    IF GetOrEmpty(r.primary_color) # <<>> THEN Strip(r.primary_color)
    ELSE IF r.primary_color = Missing /\ r.color # <<>> THEN Strip(r.color)
    ELSE DefaultColor

\* C18, amended: every output state has a descriptor that is unresolved in all six properties,
\* or resolved: then the colour is not null and is the record's primary_color when that
\* is not empty, its color when the record has no primary_color property at all, and
\* "#666666" otherwise (a primary_color that is null or "" hides the color); both URLs are built from the record's ICAO code, or
\* from its IATA code when it has no ICAO code.
C18_DescriptorResolvedOrNot ==
    (call.fn = "states" /\ call.done) =>
        \A k \in 1..Len(call.out) :
            LET d == call.out[k]
            IN \/ call.al.kind # "rec" /\ Unresolved(d)
               \/ /\ call.al.kind = "rec"
                  /\ d.primary_color # PyNone
                  /\ \E i \in 1..Len(call.file) :
                        /\ CleanColored(call.file[i]) = call.al.rec
                        /\ d.primary_color = DescriptorColor(call.file[i])
                  /\ LET code == IF call.al.rec.icao # <<>> THEN call.al.rec.icao ELSE call.al.rec.iata
                     IN /\ code # <<>>
                        /\ d.icon_url = <<"/api/airline/", "icon", "/">> \o code
                        /\ d.logo_url = <<"/api/airline/", "logo", "/">> \o code

\* a record without ICAO code, resolved by its IATA code, whose empty primary_color
\* hides its color
C18_Witness ==
    /\ call.fn = "states" /\ call.done
    /\ Len(call.out) = 1
    /\ call.al.kind = "rec"
    /\ call.al.rec.icao = <<>>
    /\ call.al.rec.primary_color = <<>> /\ call.al.rec.color # <<>>
    /\ call.out[1].primary_color = DefaultColor
    /\ call.out[1].icon_url = <<"/api/airline/", "icon", "/", "B", "B">>

(***************************************************************************)
(* The OpenSky proxy of the plorp service (src/plorp/server/app.py):       *)
(* _token_cache, fetch_token, get_token, proxied_get.  The state of the    *)
(* proxy is kept in `call`:                                                *)
(*   creds     CLIENT_ID and CLIENT_SECRET are set                         *)
(*   cache     _token_cache: token (0 for None) and exp                    *)
(*   now       time.time()                                                 *)
(*   minted    tokens the token endpoint has issued so far                 *)
(*   calls     calls of proxied_get started so far                         *)
(*   use_auth, pc, bearer, ret   the running call: its argument, the       *)
(*             statement it is about to execute, the token in its          *)
(*             Authorization header (0 for none), its result               *)
(*   statuses  the upstream responses to its GETs, in order                *)
(*   posts     its requests to the token endpoint; after401 those made     *)
(*             because of a 401; outcome what its last fetch_token ran     *)
(*             into ("" before the first)                                  *)
(***************************************************************************)
\* time.time() runs over 0..MaxTime
MaxTime == 2
\* calls of proxied_get in one run
MaxProxyCalls == 2

\* status codes of the upstream GET
UpstreamStatuses == {200, 401, 500}

\* lifetimes the token endpoint grants, expires_in - 60
TokenLives == {0, 2}

\* what fetch_token can run into (app.py:57-73)
FetchOutcomes == {"no_creds", "request_exception", "bad_status", "no_token", "bad_expires_in", "ok"}

NoResult == [kind |-> "pending", status |-> 0, exc |-> ""]

Raised(exc) == [kind |-> "raise", status |-> 0, exc |-> exc]

\* the upstream response r
UpstreamResponse(status) == [kind |-> "response", status |-> status, exc |-> ""]

\* the Flask response built at app.py:97-101
Network599 == [kind |-> "flask_response", status |-> 599, exc |-> ""]

\* _token_cache after fetch_token ran into outcome o at time now
CacheAfterFetch(cache, o, now, life, token) ==
    CASE o = "ok" -> [token |-> token, exp |-> now + life]
      [] o = "no_token" -> [token |-> 0, exp |-> now + life]
      [] o = "bad_expires_in" -> [token |-> token, exp |-> cache.exp]
      [] OTHER -> cache

\* the exception fetch_token raises on outcome o; "" when it returns the token
FetchRaises(o) ==
    CASE o = "ok" -> ""
      [] o = "request_exception" -> "RequestException"
      [] o = "bad_expires_in" -> "ValueError"
      [] OTHER -> "RuntimeError"

\* the outcomes possible with or without credentials
PossibleOutcomes(creds) == IF creds THEN FetchOutcomes \ {"no_creds"} ELSE {"no_creds"}

\* fetch_token() while the call is at statement `at`: on success the call goes on at
\* `next`; an exception ends the call, as a 599 reply where the handler of
\* app.py:95 catches it and as the exception otherwise
FetchToken(at, next, caught, because401) ==
    /\ call.fn = "proxied_get"
    /\ call.pc = at
    /\ \E o \in PossibleOutcomes(call.creds), life \in TokenLives :
          LET issued == o \in {"ok", "bad_expires_in"}
              token == call.minted + 1
              exc == FetchRaises(o)
          IN call' = [call EXCEPT
                        !.cache = CacheAfterFetch(call.cache, o, call.now, life, token),
                        !.minted = IF issued THEN token ELSE @,
                        !.posts = IF o = "no_creds" THEN @ ELSE @ + 1,
                        !.outcome = o,
                        !.after401 = IF because401 /\ o # "no_creds" THEN @ + 1 ELSE @,
                        !.bearer = IF exc = "" THEN token ELSE @,
                        !.pc = IF exc = "" THEN next ELSE "done",
                        !.ret = IF exc = "" THEN @
                                ELSE IF caught /\ exc = "RequestException" THEN Network599
                                ELSE Raised(exc)]
    /\ UNCHANGED traxVars

\* proxied_get, app.py:82-85: headers
PgHeaders ==
    /\ call.fn = "proxied_get"
    /\ call.pc = "headers"
    /\ call' = [call EXCEPT !.pc = IF call.use_auth THEN "get_token" ELSE "get"]
    /\ UNCHANGED traxVars

\* faulty variant of GetTokenCached: the expiry is not looked at
GetTokenCached_NoExpiry ==
    /\ call.fn = "proxied_get"
    /\ call.pc = "get_token"
    /\ call.cache.token # 0
    /\ call' = [call EXCEPT !.bearer = call.cache.token, !.pc = "get"]
    /\ UNCHANGED traxVars

\* get_token, app.py:76-77: the cached token is returned
GetTokenCached ==
    /\ call.fn = "proxied_get"
    /\ call.pc = "get_token"
    /\ call.cache.token # 0 /\ call.now < call.cache.exp
    /\ call' = [call EXCEPT !.bearer = call.cache.token, !.pc = "get"]
    /\ UNCHANGED traxVars

\* get_token, app.py:78: return fetch_token()
GetTokenFetch ==
    /\ ~(call.cache.token # 0 /\ call.now < call.cache.exp)
    /\ FetchToken("get_token", "get", FALSE, FALSE)

\* requests.get at statement `at`: a response with some status, or a RequestException
UpstreamGet(at, retry) ==
    /\ call.fn = "proxied_get"
    /\ call.pc = at
    /\ \/ \E status \in UpstreamStatuses :
             call' = [call EXCEPT
                        !.statuses = Append(@, status),
                        !.pc = IF retry /\ call.use_auth /\ status = 401 THEN "refresh" ELSE "done",
                        !.ret = IF retry /\ call.use_auth /\ status = 401 THEN @
                                ELSE UpstreamResponse(status)]
       \/ call' = [call EXCEPT !.statuses = Append(@, 0), !.pc = "done", !.ret = Network599]
    /\ UNCHANGED traxVars

\* proxied_get, app.py:88-89 and 94: the first GET
PgGet == UpstreamGet("get", TRUE)

\* proxied_get, app.py:90-92: fetch_token() after a 401
PgRefresh == FetchToken("refresh", "get_again", TRUE, TRUE)

\* faulty variant of PgGetAgain: a 401 to the second GET leads to another refresh
PgGetAgain_Loop ==
    /\ call.fn = "proxied_get"
    /\ call.pc = "get_again"
    /\ call' = [call EXCEPT !.statuses = Append(@, 401), !.pc = "refresh"]
    /\ UNCHANGED traxVars

\* proxied_get, app.py:93-94: the second GET; its response is returned
PgGetAgain == UpstreamGet("get_again", FALSE)

\* time passes
Tick ==
    /\ call.fn = "proxied_get"
    /\ call.now < MaxTime
    /\ call' = [call EXCEPT !.now = @ + 1]
    /\ UNCHANGED traxVars

\* the next request: a route calls proxied_get (app.py:113, 123, 132, 141, 150)
PgCall ==
    /\ call.fn = "proxied_get"
    /\ call.pc = "done"
    /\ call.calls < MaxProxyCalls
    /\ \E use_auth \in BOOLEAN :
          call' = [call EXCEPT
                     !.calls = @ + 1, !.use_auth = use_auth, !.pc = "headers", !.bearer = 0,
                     !.ret = NoResult, !.statuses = <<>>, !.posts = 0, !.after401 = 0,
                     !.outcome = ""]
    /\ UNCHANGED traxVars

InitProxy ==
    /\ TraxOff
    /\ \E creds \in BOOLEAN, use_auth \in BOOLEAN :
          call = [fn |-> "proxied_get", creds |-> creds, cache |-> [token |-> 0, exp |-> 0],
                  now |-> 0, minted |-> 0, calls |-> 1, use_auth |-> use_auth, pc |-> "headers",
                  bearer |-> 0, ret |-> NoResult, statuses |-> <<>>, posts |-> 0, after401 |-> 0,
                  outcome |-> ""]

NextProxy ==
    \/ PgHeaders
    \/ GetTokenCached
    \/ GetTokenFetch
    \/ PgGet
    \/ PgRefresh
    \/ PgGetAgain
    \/ Tick
    \/ PgCall

SpecProxy == InitProxy /\ [][NextProxy]_vars

(***************************************************************************)
(* Claims about proxied_get                                                *)
(***************************************************************************)
\* C19: one call of proxied_get issues the upstream GET at most twice and fetches a
\* token at most once because of a 401; a second GET is issued only with use_auth and
\* after a 401, and its response is returned, a 401 included; without use_auth no
\* token is fetched or read and there is one GET at most.
C19_SingleReauthRetry ==
    call.fn = "proxied_get" =>
        /\ Len(call.statuses) <= 2
        /\ call.after401 <= 1
        /\ Len(call.statuses) = 2 => (call.use_auth /\ call.statuses[1] = 401 /\ call.after401 = 1)
        /\ (call.pc = "done" /\ Len(call.statuses) = 2 /\ call.statuses[2] # 0)
              => call.ret = UpstreamResponse(call.statuses[2])
        /\ ~call.use_auth => (call.posts = 0 /\ call.bearer = 0 /\ Len(call.statuses) <= 1)

\* 401 to both GETs: the second 401 is what the caller gets, after one refresh
C19_Witness ==
    /\ call.fn = "proxied_get"
    /\ call.pc = "done"
    /\ call.use_auth
    /\ call.statuses = <<401, 401>>
    /\ call.after401 = 1
    /\ call.ret = UpstreamResponse(401)

(***************************************************************************)
(* Claims about the reload check                                           *)
(***************************************************************************)
\* the collection and the indexes are those of the file as it stands, and the recorded
\* modification time is the file's
LoadedFromFile ==
    /\ fileExists
    /\ _normalize_airlines_payload(fileContent).kind = "ok"
    /\ _AIRLINES = _normalize_airlines_payload(fileContent).airlines
    /\ Consistent
    /\ _LAST_AIRLINES_MTIME = fileMtime

\* C20: a reload check loads exactly when the file exists and its modification time
\* differs from the recorded one; when the load returns, collection and indexes are the
\* ones derived from the file's content and the recorded modification time is the
\* file's; a check that finds the recorded time leaves all four unchanged.
C20_ReloadCheck ==
    [][\A t \in Workers :
          /\ (pc[t] = "rc_stat" /\ pc'[t] # pc[t] /\ ~fileExists) => pc'[t] = "r_entry"
          /\ (pc[t] = "rc_cmp" /\ pc'[t] # pc[t]) =>
                (pc'[t] = "ld_exists" <=> loc[t].m # _LAST_AIRLINES_MTIME)
          /\ (pc[t] = "rc_cmp" /\ pc'[t] = "r_entry") => UNCHANGED globalVars
          /\ (LoadReturnsNow(t) /\ ~loc[t].miss) => LoadedFromFile']_vars

(***************************************************************************)
(* Claims about the indexes after a load                                   *)
(***************************************************************************)
\* the trimmed, upper-cased code of a record
CodeOf(r, field) == Upper(Strip(IF field = "icao" THEN r.icao ELSE r.iata))

\* index idx is the one the collection determines for the field: its keys are the
\* non-empty codes of the records, each key maps to the last record with that code
IndexFollows(idx, field) ==
    /\ DOMAIN idx = {CodeOf(_AIRLINES[i], field) : i \in 1..Len(_AIRLINES)} \ {<<>>}
    /\ \A k \in DOMAIN idx :
          \E i \in 1..Len(_AIRLINES) :
             /\ idx[k] = _AIRLINES[i]
             /\ CodeOf(_AIRLINES[i], field) = k
             /\ \A j \in (i + 1)..Len(_AIRLINES) : CodeOf(_AIRLINES[j], field) # k

\* a record without any code is in neither index
CodelessNotIndexed ==
    \A r \in Range(_AIRLINES_BY_ICAO) \cup Range(_AIRLINES_BY_IATA) :
        r.icao # <<>> \/ r.iata # <<>>

\* C21: when a load completes, each index is the one the loaded collection determines
\* (keys: the non-empty trimmed upper-cased codes; values: the last record of the
\* collection with the code), and no record without a code is indexed.
C21_IndexesFollowCollection ==
    [][\A t \in Threads :
          LoadReturnsNow(t) =>
              (IndexFollows(_AIRLINES_BY_ICAO, "icao")
                 /\ IndexFollows(_AIRLINES_BY_IATA, "iata")
                 /\ CodelessNotIndexed)']_vars

(***************************************************************************)
(* Claims about the strategies within one candidate of logo_for_property   *)
(***************************************************************************)
\* the positions in the table of the keys the token contains
KeysIn(tok) == {i \in DOMAIN BRAND_LOGOS : Contains(BRAND_LOGOS[i][1], tok)}

\* the entries of the alias table whose raw key the token contains
AliasesIn(tok) == {i \in DOMAIN ALIAS : Contains(ALIAS[i][1], tok)}

\* the token of the highest-priority field, the brand
BrandToken == _alias(_norm(call.p.brand))

\* the call is decided by a brand field
BrandDecides == IsLogoCall /\ ~NameIsW(call.p) /\ Truthy(call.p.brand)

\* C22: for the token of a candidate, a token that is a key of the table gets that
\* key's logo; otherwise a token that contains keys of the table gets the logo of the
\* one that comes first in the table.
C22_ExactThenFirstKey ==
    BrandDecides =>
        /\ InBrandLogos(BrandToken) =>
              (call.out.url = LogoUrl(BrandLogo(BrandToken)) /\ call.out.line = 175)
        /\ (~InBrandLogos(BrandToken) /\ KeysIn(BrandToken) # {}) =>
              \E i \in KeysIn(BrandToken) :
                 /\ \A j \in KeysIn(BrandToken) : i <= j
                 /\ call.out.url = LogoUrl(BRAND_LOGOS[i][2])
                 /\ call.out.line = 178

\* "JW Marriott & Westin": the token contains two keys, jwmarriott stands before
\* westin in the table
C22_Witness ==
    /\ BrandDecides
    /\ ~InBrandLogos(BrandToken)
    /\ Cardinality(KeysIn(BrandToken)) = 2
    /\ call.out.url = LogoUrl("jw_marriott.png")

\* C23: a field whose text is the spelling of an entry of the alias table gets the logo
\* of the entry's canonical token; a token that neither is nor contains a key of the
\* table but contains the raw key of an alias gets the logo of such an alias, not the
\* fallback.
C23_AliasResolves ==
    BrandDecides =>
        /\ \A i \in DOMAIN ALIAS :
              call.p.brand = ALIAS[i][1] => call.out.url = LogoUrl(BrandLogo(ALIAS[i][2]))
        /\ (~InBrandLogos(BrandToken) /\ KeysIn(BrandToken) = {} /\ AliasesIn(BrandToken) # {}) =>
              /\ call.out.url \in {LogoUrl(BrandLogo(ALIAS[i][2])) : i \in AliasesIn(BrandToken)}
              /\ call.out.url # LogoUrl("fallback_logo.png")
              /\ call.out.line = 181

\* "Ritz Paris": no key of the table in the token ritzparis, the alias ritz in it
C23_Witness ==
    /\ BrandDecides
    /\ call.p.brand = <<"R", "i", "t", "z", " ", "P", "a", "r", "i", "s">>
    /\ KeysIn(BrandToken) = {}
    /\ call.out.line = 181
    /\ call.out.url = LogoUrl("ritz_carlton.png")

(***************************************************************************)
(* Claims about the order of the rules of aircraft_pretty                  *)
(***************************************************************************)
\* the families with sub-variant rules: the marker of the family and, for each
\* sub-variant, its marker and its code
Families ==
    << [family |-> <<"a", "2", "2", "0">>,
         subs |-> <<<<<<"3", "0", "0">>, <<"A", "2", "2", "0", "-", "3", "0", "0">>>>, <<<<"1", "0", "0">>, <<"A", "2", "2", "0", "-", "1", "0", "0">>>>>>],
       [family |-> <<"a", "3", "2", "1">>,
         subs |-> <<<<<<"n", "e", "o">>, <<"A", "3", "2", "1", "n", "e", "o">>>>>>],
       [family |-> <<"7", "3", "7">>,
         subs |-> <<<<<<"9", "0", "0">>, <<"B", "7", "3", "7", "-", "9", "0", "0">>>>, <<<<"8", "0", "0">>, <<"B", "7", "3", "7", "-", "8", "0", "0">>>>, <<<<"7", "0", "0">>, <<"B", "7", "3", "7", "-", "7", "0", "0">>>>>>],
       [family |-> <<"7", "5", "7">>,
         subs |-> <<<<<<"3", "0", "0">>, <<"B", "7", "5", "7", "-", "3", "0", "0">>>>, <<<<"2", "0", "0">>, <<"B", "7", "5", "7", "-", "2", "0", "0">>>>>>],
       [family |-> <<"7", "6", "7">>,
         subs |-> <<<<<<"4", "0", "0">>, <<"B", "7", "6", "7", "-", "4", "0", "0">>>>, <<<<"3", "0", "0">>, <<"B", "7", "6", "7", "-", "3", "0", "0">>>>>>],
       [family |-> <<"7", "8", "7">>,
         subs |-> <<<<<<"1", "0">>, <<"B", "7", "8", "7", "-", "1", "0">>>>, <<<<"9">>, <<"B", "7", "8", "7", "-", "9">>>>, <<<<"8">>, <<"B", "7", "8", "7", "-", "8">>>>>>],
       [family |-> <<"c", "r", "j">>,
         subs |-> <<<<<<"9", "0", "0">>, <<"C", "R", "J", " ", "9", "0", "0">>>>, <<<<"7", "0", "0">>, <<"C", "R", "J", " ", "7", "0", "0">>>>, <<<<"2", "0", "0">>, <<"C", "R", "J", " ", "2", "0", "0">>>>>>] >>

\* the markers of the families without sub-variant rules
PlainFamilies == {<<"a", "3", "1", "9">>, <<"a", "3", "2", "0">>, <<"a", "3", "3", "0">>, <<"a", "3", "5", "0">>}

\* the text without the occurrences of a marker
RECURSIVE Without(_, _)
Without(s, mk) ==
    IF s = <<>> THEN <<>>
    ELSE IF StartsWith(s, mk) THEN Without(SubSeq(s, Len(mk) + 1, Len(s)), mk)
    ELSE <<Head(s)>> \o Without(Tail(s), mk)

\* the description names family f and no other family
NamesOnlyFamily(s, f) ==
    /\ Contains(Families[f].family, s)
    /\ \A g \in DOMAIN Families : g # f => ~Contains(Families[g].family, s)
    /\ \A mk \in PlainFamilies : ~Contains(mk, s)

\* the sub-variants of family f the description names: their markers stand in the
\* text beside the marker of the family
SubsNamed(s, f) ==
    {k \in DOMAIN Families[f].subs : Contains(Families[f].subs[k][1], Without(s, Families[f].family))}

\* C24: a description that names one family and exactly one of its sub-variants gets
\* the code of that sub-variant; one that names the family and no sub-variant gets no
\* sub-variant's code.
C24_SpecificBeforeGeneral ==
    (IsAircraftCall /\ call.name # PyNone) =>
        \A f \in DOMAIN Families :
            LET s == Lower(call.name)
            IN NamesOnlyFamily(s, f) =>
                  /\ \A k \in SubsNamed(s, f) :
                        SubsNamed(s, f) = {k} => call.out.text = Families[f].subs[k][2]
                  /\ SubsNamed(s, f) = {} =>
                        \A g \in DOMAIN Families :
                            \A k \in DOMAIN Families[g].subs :
                                call.out.text # Families[g].subs[k][2]

(***************************************************************************)
(* relay and json_error of the plorp proxy (src/plorp/server/app.py:26-55) *)
(***************************************************************************)
ApplicationJson == <<"a", "p", "p", "l", "i", "c", "a", "t", "i", "o", "n", "/", "j", "s", "o", "n">>

TextHtml == <<"t", "e", "x", "t", "/", "h", "t", "m", "l">>

\* Content-Type headers of upstream responses; <<>> where the header is missing
ContentTypes ==
    { <<>>,
      ApplicationJson,
      <<"t", "e", "x", "t", "/", "h", "t", "m", "l", ";", " ", "c", "h", "a", "r", "s", "e", "t", "=", "u", "t", "f", "-", "8">>,
      <<"T", "e", "x", "t", "/", "H", "T", "M", "L">>,
      <<"t", "e", "x", "t", "/", "p", "l", "a", "i", "n">> }

\* bodies of upstream responses: none, a JSON document, plain text, an HTML page
EmptyBody == <<>>

JsonBody == <<"{", "'", "s", "t", "a", "t", "e", "s", "'", ":", "[", "]", "}">>

PlainBody == <<"T", "o", "o", " ", "m", "a", "n", "y", " ", "r", "e", "q", "u", "e", "s", "t", "s">>

HtmlBody == <<"<", "h", "t", "m", "l", ">", "5", "0", "2", "<", "/", "h", "t", "m", "l", ">">>

Bodies == {EmptyBody, JsonBody, PlainBody, HtmlBody}

\* status codes of upstream responses
RelayStatuses == {200, 401, 429, 502, 503}

\* the payload of a reply that json_error did not build
NoPayload == [status |-> 0, content_type |-> <<>>, text |-> <<>>]

\* json_error(status, **payload), app.py:26-29: a JSON document with that status; the
\* reply is [status, content_type, json_error, payload, body], body being raw bytes
json_error(status, payload) ==
    [status |-> status, content_type |-> ApplicationJson, json_error |-> TRUE,
     payload |-> payload, body |-> <<>>]

\* Response(body, status=..., content_type=...), app.py:55
RawResponse(body, status, content_type) ==
    [status |-> status, content_type |-> content_type, json_error |-> FALSE,
     payload |-> NoPayload, body |-> body]

\* relay(r), app.py:40-55
relay(r) ==
    IF r.body = <<>> \/ Contains(TextHtml, Lower(r.ct))
    THEN json_error(r.status,
                    [status |-> r.status,
                     content_type |-> IF r.ct # <<>> THEN r.ct ELSE <<"u", "n", "k", "n", "o", "w", "n">>,
                     text |-> r.body])
    ELSE RawResponse(r.body, r.status, IF r.ct # <<>> THEN r.ct ELSE ApplicationJson)

\* the inputs of one call of relay: an upstream response
InitRelay ==
    /\ TraxOff
    /\ \E status \in RelayStatuses, ct \in ContentTypes, body \in Bodies :
          call = [fn |-> "relay", r |-> [status |-> status, ct |-> ct, body |-> body],
                  done |-> FALSE, out |-> RawResponse(<<>>, 0, <<>>)]

\* the call
RelayCall ==
    /\ call.fn = "relay"
    /\ ~call.done
    /\ call' = [call EXCEPT !.done = TRUE, !.out = relay(call.r)]
    /\ UNCHANGED traxVars

SpecRelay == InitRelay /\ [][RelayCall]_vars

(***************************************************************************)
(* Claims about relay                                                      *)
(***************************************************************************)
\* the reply is a JSON document: one built by json_error, or the upstream's JSON body
IsJsonReply(reply) == reply.json_error \/ reply.body = JsonBody

\* C25: an upstream response whose body is empty or is not JSON is answered with a JSON
\* document that carries the upstream status; a non-empty JSON body is handed on
\* unchanged with the upstream status and content type.
C25_RelayGuaranteesJson ==
    (call.fn = "relay" /\ call.done) =>
        /\ call.r.body # JsonBody =>
              (IsJsonReply(call.out) /\ call.out.status = call.r.status)
        /\ (call.r.body = JsonBody /\ call.r.ct = ApplicationJson) =>
              call.out = RawResponse(call.r.body, call.r.status, call.r.ct)

(***************************************************************************)
(* Claims about the file version a load records                            *)
(***************************************************************************)
\* no thread is inside _load_airlines
NoLoadInProgress == \A t \in Threads : pc[t] \notin LoadPcs

\* the collection is the normalized content of the file as it stands
HoldsFileContent ==
    /\ _normalize_airlines_payload(fileContent).kind = "ok"
    /\ _AIRLINES = _normalize_airlines_payload(fileContent).airlines

\* C26: whenever no load is in progress and the recorded modification time is that of
\* the file, the collection is the normalized content of the file; in particular a load
\* that records the file's modification time holds the content of that file.
C26_RecordedVersionIsHeld ==
    [][/\ (NoLoadInProgress /\ fileExists /\ _LAST_AIRLINES_MTIME = fileMtime)' => HoldsFileContent'
       /\ \A t \in Threads :
             (pc[t] = "ld_stat" /\ pc'[t] = "ix_reset_icao") => HoldsFileContent']_vars

(***************************************************************************)
(* Claims about get_token and fetch_token                                  *)
(***************************************************************************)
\* _token_cache holds a token that get_token hands out at the current time
CacheUsable == call.cache.token # 0 /\ call.now < call.cache.exp

\* C27: get_token returns no missing token; it returns the cached token, without a
\* request to the token endpoint, only when a token is cached and the time is before
\* the recorded expiry; otherwise it returns a token the endpoint has just issued, or
\* raises; a token response without access_token raises and leaves no token cached.
C27_TokenNeverStale ==
    [][call.fn = "proxied_get" =>
          /\ (call.pc = "get_token" /\ call'.pc = "get") =>
                /\ call'.bearer # 0
                /\ call'.posts = call.posts =>
                      (CacheUsable /\ call'.bearer = call.cache.token)
                /\ call'.posts # call.posts =>
                      (~CacheUsable /\ call'.bearer = call'.minted /\ call'.minted = call.minted + 1)
          /\ (call.pc = "get_token" /\ call'.pc = "done") =>
                (~CacheUsable /\ call'.ret.kind = "raise")
          /\ (call'.posts # call.posts /\ call'.outcome = "no_token") =>
                (call'.ret.kind \in {"raise", "flask_response"} /\ call'.cache.token = 0 /\ call'.pc = "done")]_vars

\* the second call uses the token the first one fetched, before its expiry
C27_Witness ==
    /\ call.fn = "proxied_get"
    /\ call.calls = 2
    /\ call.pc = "get"
    /\ call.use_auth
    /\ call.posts = 0
    /\ call.bearer # 0 /\ call.bearer = call.cache.token
    /\ call.now > 0 /\ call.now < call.cache.exp

(***************************************************************************)
(* The entry of states(), Trax app.py:205-229, and its reply: the PIN, the *)
(* bbox, the request to OpenSky.  All of its state is in call:             *)
(*   pin, bbox   the X-TRAX-PIN header and the bbox argument (PyNone when  *)
(*               the request has none)                                     *)
(*   upstream    what the request to OpenSky runs into, if it is made      *)
(*   pc          pin, bbox, get, enrich, done                              *)
(*   params      the query of the request to OpenSky                       *)
(*   gets        the requests made to OpenSky                              *)
(*   reply       the reply of the handler                                  *)
(***************************************************************************)
\* TRAX_ALLOWED_PIN is not set, app.py:20
ALLOWED_PIN == <<"4", "2", "4", "2">>

\* s.split(c)
RECURSIVE SplitOn(_, _)
SplitOn(s, c) ==
    IF \A i \in 1..Len(s) : s[i] # c
    THEN <<s>>
    ELSE LET i == CHOOSE j \in 1..Len(s) : s[j] = c /\ \A k \in 1..(j - 1) : s[k] # c
         IN <<SubSeq(s, 1, i - 1)>> \o SplitOn(SubSeq(s, i + 1, Len(s)), c)

\* s.split(",")
SplitComma(s) == SplitOn(s, ",")

\* digits with at most one point among them
IsDecimal(s) ==
    /\ \E i \in 1..Len(s) : IsDigit(s[i])
    /\ \A i \in 1..Len(s) : IsDigit(s[i]) \/ s[i] = "."
    /\ Cardinality({i \in 1..Len(s) : s[i] = "."}) <= 1

\* float(s) returns: blanks around, a sign, a decimal
IsFloat(s) ==
    LET t == Strip(s)
        u == IF t # <<>> /\ Head(t) \in {"-", "+"} THEN Tail(t) ELSE t
    IN IsDecimal(u)

\* minLat, minLon, maxLat, maxLon = map(float, bbox.split(",")) does not raise
BboxParses(bbox) ==
    /\ Len(SplitComma(bbox)) = 4
    /\ \A i \in 1..4 : IsFloat(SplitComma(bbox)[i])

NoParams == <<>>

\* params.update(...), app.py:218
BboxParams(bbox) ==
    LET p == SplitComma(bbox)
    IN [lamin |-> Strip(p[1]), lomin |-> Strip(p[2]), lamax |-> Strip(p[3]), lomax |-> Strip(p[4])]

NoReply == [status |-> 0, error |-> "", count |-> 0]

\* jsonify({"error": ...}), status
ErrorReply(status, error) == [status |-> status, error |-> error, count |-> 0]

\* an exception that no handler of states() catches: Flask answers 500
Unhandled == [status |-> 500, error |-> "Internal Server Error", count |-> 0]

\* the X-TRAX-PIN headers of the requests; None: the request has none
PinHeaders == {PyNone, ALLOWED_PIN, <<" ">> \o ALLOWED_PIN, <<"0", "0", "0", "0">>, <<"4", "2", "4">>}

\* the bbox arguments of the requests; None: the request has none
BboxArgs ==
    {PyNone, <<>>,
     <<"1", ",", "2", ",", "3", ",", "4">>,
     <<"-", "1", ".", "5", ",", " ", "2", ",", "3", ",", "+", "4", ".">>,
     <<"1", ",", "2", ",", "3">>,
     <<"1", ",", "2", ",", "3", ",", "4", ",", "5">>,
     <<"1", ",", "x", ",", "3", ",", "4">>,
     <<"1", ",", ",", "3", ",", "4">>,
     <<"1", ",", "2", ",", "3", ",", ".">>,
     <<"x">>}

\* what SESSION.get, raise_for_status and r.json() run into, app.py:224-226; the
\* number: the states of the answer that have a position
\* (an answer that is not JSON is left out: what r.json() raises then depends on the
\* version of requests)
UpstreamOutcomes ==
    {[kind |-> k, positions |-> 0] : k \in {"connection_error", "timeout", "http_error"}}
        \cup {[kind |-> "ok", positions |-> n] : n \in 0..1}

InitGate ==
    /\ TraxOff
    /\ \E pin \in PinHeaders, bbox \in BboxArgs, up \in UpstreamOutcomes :
          call = [fn |-> "states_entry", pin |-> pin, bbox |-> bbox, upstream |-> up,
                  pc |-> "pin", params |-> NoParams, gets |-> 0, reply |-> NoReply]

\* faulty variant of StPin: the PIN is not compared
StPin_NoCheck ==
    /\ call.fn = "states_entry"
    /\ call.pc = "pin"
    /\ call' = [call EXCEPT !.pc = "bbox"]
    /\ UNCHANGED traxVars

\* app.py:207-209
StPin ==
    /\ call.fn = "states_entry"
    /\ call.pc = "pin"
    /\ LET pin == Strip(IF call.pin = PyNone THEN <<>> ELSE call.pin)
       IN call' = IF pin # ALLOWED_PIN
                  THEN [call EXCEPT !.pc = "done", !.reply = ErrorReply(403, "Forbidden")]
                  ELSE [call EXCEPT !.pc = "bbox"]
    /\ UNCHANGED traxVars

\* app.py:214-221
StBbox ==
    /\ call.fn = "states_entry"
    /\ call.pc = "bbox"
    /\ call' = IF call.bbox = PyNone \/ call.bbox = <<>>
               THEN [call EXCEPT !.pc = "get"]
               ELSE IF BboxParses(call.bbox)
               THEN [call EXCEPT !.pc = "get", !.params = BboxParams(call.bbox)]
               ELSE [call EXCEPT !.pc = "done", !.reply = ErrorReply(400, "Invalid bbox")]
    /\ UNCHANGED traxVars

\* app.py:223-229
StGet ==
    /\ call.fn = "states_entry"
    /\ call.pc = "get"
    /\ call' = IF call.upstream.kind = "ok"
               THEN [call EXCEPT !.pc = "enrich", !.gets = @ + 1]
               ELSE [call EXCEPT !.pc = "done", !.gets = @ + 1,
                                 !.reply = ErrorReply(502, "OpenSky request failed")]
    /\ UNCHANGED traxVars

\* app.py:236-283: the states that have a position are described (StatesCall) and counted
StEnrich ==
    /\ call.fn = "states_entry"
    /\ call.pc = "enrich"
    /\ call' = [call EXCEPT !.pc = "done",
                            !.reply = [status |-> 200, error |-> "", count |-> call.upstream.positions]]
    /\ UNCHANGED traxVars

NextGate == StPin \/ StBbox \/ StGet \/ StEnrich

SpecGate == InitGate /\ [][NextGate]_vars

(***************************************************************************)
(* Claims about the entry of states()                                      *)
(***************************************************************************)
\* the header carries the allowed PIN (blanks around a header value are not part of it)
PinAllowed == call.pin # PyNone /\ Strip(call.pin) = ALLOWED_PIN

\* the request has a bbox with a value
BboxGiven == call.bbox # PyNone /\ call.bbox # <<>>

DigitVal(c) == CHOOSE n \in 0..9 : Digits[n + 1] = c

AllDigits(s) == \A i \in 1..Len(s) : IsDigit(s[i])

\* the value of a string of digits
RECURSIVE DecimalVal(_)
DecimalVal(s) ==
    IF s = <<>> THEN 0 ELSE 10 * DecimalVal(SubSeq(s, 1, Len(s) - 1)) + DigitVal(s[Len(s)])

IsLeap(y) == (y % 4 = 0 /\ y % 100 # 0) \/ y % 400 = 0

DaysIn(y, m) ==
    IF m = 2 THEN (IF IsLeap(y) THEN 29 ELSE 28)
    ELSE IF m \in {4, 6, 9, 11} THEN 30 ELSE 31

\* the exception of a conversion
ValueError == [kind |-> "raise", y |-> 0, m |-> 0, d |-> 0]

Date(y, m, d) == [kind |-> "date", y |-> y, m |-> m, d |-> d]

\* parse_date, app.py:45-46: strptime with "%Y-%m-%d" (four digits, one or two, one
\* or two, the day also as a blank and a digit), then the date must exist
parse_date(s) ==
    LET p == SplitOn(s, "-")
    IN IF Len(p) # 3 THEN ValueError
       ELSE LET ds == IF Len(p[3]) = 2 /\ p[3][1] = Space THEN Tail(p[3]) ELSE p[3]
            IN IF ~(Len(p[1]) = 4 /\ AllDigits(p[1])) THEN ValueError
               ELSE IF ~(Len(p[2]) \in 1..2 /\ AllDigits(p[2])) THEN ValueError
               ELSE IF ~(Len(ds) \in 1..2 /\ AllDigits(ds)) THEN ValueError
               ELSE LET y == DecimalVal(p[1])
                        mo == DecimalVal(p[2])
                        d == DecimalVal(ds)
                    IN IF y >= 1 /\ mo \in 1..12 /\ d >= 1 /\ d <= DaysIn(y, mo)
                       THEN Date(y, mo, d)
                       ELSE ValueError

\* date + timedelta(days=n); past the year 9999 it raises OverflowError
RECURSIVE AddDays(_, _)
AddDays(dt, n) ==
    IF n = 0 THEN dt
    ELSE IF dt.d < DaysIn(dt.y, dt.m) THEN AddDays(Date(dt.y, dt.m, dt.d + 1), n - 1)
    ELSE IF dt.m < 12 THEN AddDays(Date(dt.y, dt.m + 1, 1), n - 1)
    ELSE IF dt.y < 9999 THEN AddDays(Date(dt.y + 1, 1, 1), n - 1)
    ELSE ValueError

\* the decimal digits of n, at least w of them
RECURSIVE Padded(_, _)
Padded(n, w) ==
    IF w <= 1 /\ n < 10 THEN <<Digits[n + 1]>>
    ELSE Padded(n \div 10, w - 1) \o <<Digits[(n % 10) + 1]>>

\* date.isoformat()
isoformat(dt) == Padded(dt.y, 4) \o <<"-">> \o Padded(dt.m, 2) \o <<"-">> \o Padded(dt.d, 2)

\* int(s) of a stripped text: a sign and digits, else ValueError
IntOf(s) ==
    LET u == IF s # <<>> /\ Head(s) \in {"-", "+"} THEN Tail(s) ELSE s
    IN IF u = <<>> \/ ~AllDigits(u) THEN [kind |-> "raise", n |-> 0]
       ELSE [kind |-> "int", n |-> IF s[1] = "-" THEN 0 - DecimalVal(u) ELSE DecimalVal(u)]

\* (request.args.get(a) or request.args.get(b) or default).strip()
ArgOr(a, b, default) ==
    Strip(IF a # PyNone /\ a # <<>> THEN a ELSE IF b # PyNone /\ b # <<>> THEN b ELSE default)

RESULTS_HOTELS == "yocto/results/index.html"
RESULTS_FLIGHTS == "yocto/fly/results/index.html"

\* the page a results file holds before the request
OldPage == [page |-> "old", query |-> <<>>]

NoPage == [page |-> "", query |-> <<>>]

\* render_hotels_html, app.py:242: the page shows the query it was made for
render_hotels_html(q, ci_s, co_s) == [page |-> "hotels", query |-> <<q, ci_s, co_s>>]

\* render_flights_html, app.py:581
render_flights_html(dep_disp, arr_disp, date_str, cls) ==
    [page |-> "flights", query |-> <<dep_disp, arr_disp, date_str, cls>>]

NotReturned == "<not returned>"
GitNone == "<None>"
GitError == "git error"

NoRunReply == [status |-> 0, body |-> NoPage]

\* abort(400, ...)
Abort400 == [status |-> 400, body |-> NoPage]

\* an exception leaves the handler: Flask answers 500
Error500 == [status |-> 500, body |-> NoPage]

\* Response(html_out, mimetype="text/html")
HtmlResponse(html_out) == [status |-> 200, body |-> html_out]

Places == {PyNone, <<>>, <<"n", "y", "c">>, <<" ", "H", "o", "m", "e">>}

DateTexts ==
    {PyNone, <<>>,
     <<"2", "0", "2", "4", "-", "0", "2", "-", "2", "9">>,
     <<"2", "0", "2", "3", "-", "0", "2", "-", "2", "9">>,
     <<"2", "0", "2", "4", "-", "1", "2", "-", "3", "1">>,
     <<"2", "0", "2", "4", "-", "1", "3", "-", "0", "1">>,
     <<"2", "0", "2", "4", "-", "3", "-", "7">>,
     <<"2", "4", "-", "0", "3", "-", "0", "7">>,
     <<"9", "9", "9", "9", "-", "1", "2", "-", "3", "1">>,
     <<"s", "o", "o", "n">>}

NightsTexts == {PyNone, <<"2">>, <<"0">>, <<"-", "3">>, <<"x">>, <<"3", "1">>}

ClassTexts == {PyNone, <<"J">>}

NoArgs ==
    [where |-> PyNone, when |-> PyNone, nights |-> PyNone,
     departure |-> PyNone, arrival |-> PyNone, date |-> PyNone, class |-> PyNone]

RunStart(route, args) ==
    [fn |-> "run", route |-> route, args |-> args, pc |-> "validate",
     ci_s |-> <<>>, co_s |-> <<>>, searched |-> FALSE, html_out |-> NoPage,
     files |-> [hotels |-> OldPage, flights |-> OldPage],
     git |-> <<>>, git_ret |-> NotReturned, reply |-> NoRunReply]

InitRun ==
    /\ TraxOff
    /\ \/ \E where \in Places, when \in DateTexts, nights \in NightsTexts :
             call = RunStart("run", [NoArgs EXCEPT !.where = where, !.when = when, !.nights = nights])
       \/ \E dep \in Places, arr \in Places, dt \in DateTexts, cls \in ClassTexts :
             call = RunStart("fly_run", [NoArgs EXCEPT !.departure = dep, !.arrival = arr,
                                                       !.date = dt, !.class = cls])

\* run_hotels, app.py:767-776
HotelsValidate ==
    /\ call.fn = "run" /\ call.route = "run" /\ call.pc = "validate"
    /\ LET where == ArgOr(call.args.where, PyNone, <<>>)
           when == ArgOr(call.args.when, PyNone, <<>>)
           nights_str == ArgOr(call.args.nights, PyNone, <<"1">>)
           nights == IntOf(nights_str)
           ci == parse_date(when)
           co == AddDays(ci, IF nights.n < 1 THEN 1 ELSE nights.n)
       IN call' = IF where = <<>> \/ when = <<>> THEN [call EXCEPT !.pc = "done", !.reply = Abort400]
                  ELSE IF nights.kind = "raise" \/ ci.kind = "raise" THEN [call EXCEPT !.pc = "done", !.reply = Abort400]
                  ELSE IF co.kind = "raise" THEN [call EXCEPT !.pc = "done", !.reply = Abort400]
                  ELSE [call EXCEPT !.pc = "search", !.ci_s = isoformat(ci), !.co_s = isoformat(co)]
    /\ UNCHANGED traxVars

\* run_flights, app.py:785-793
FlightsValidate ==
    /\ call.fn = "run" /\ call.route = "fly_run" /\ call.pc = "validate"
    /\ LET dep_disp == ArgOr(call.args.departure, PyNone, <<>>)
           arr_disp == ArgOr(call.args.arrival, PyNone, <<>>)
           date_str == ArgOr(call.args.date, PyNone, <<>>)
       IN call' = IF dep_disp = <<>> \/ arr_disp = <<>> \/ date_str = <<>>
                  THEN [call EXCEPT !.pc = "done", !.reply = Abort400]
                  ELSE [call EXCEPT !.pc = "search"]
    /\ UNCHANGED traxVars

\* faulty variant of RunSearch: an exception of the search is swallowed
RunSearch_Swallow ==
    /\ call.fn = "run" /\ call.pc = "search"
    /\ \E ok \in BOOLEAN : call' = [call EXCEPT !.pc = "render", !.searched = ok]
    /\ UNCHANGED traxVars

\* serpapi_hotels, app.py:83-101, serpapi_flights, app.py:407-423: the search returns,
\* or requests.get, raise_for_status or r.json() raises
RunSearch ==
    /\ call.fn = "run" /\ call.pc = "search"
    /\ \E ok \in BOOLEAN :
          call' = IF ok THEN [call EXCEPT !.pc = "render", !.searched = TRUE]
                  ELSE [call EXCEPT !.pc = "done", !.reply = Error500]
    /\ UNCHANGED traxVars

\* app.py:778 and 795: the page is rendered, or the renderer raises on the data
RunRender ==
    /\ call.fn = "run" /\ call.pc = "render"
    /\ LET html_out ==
              IF call.route = "run"
              THEN render_hotels_html(ArgOr(call.args.where, PyNone, <<>>), call.ci_s, call.co_s)
              ELSE render_flights_html(ArgOr(call.args.departure, PyNone, <<>>),
                                       ArgOr(call.args.arrival, PyNone, <<>>),
                                       ArgOr(call.args.date, PyNone, <<>>),
                                       ArgOr(call.args.class, PyNone, <<"f", "i", "r", "s", "t">>))
       IN \E ok \in BOOLEAN :
             call' = IF ok THEN [call EXCEPT !.pc = "write", !.html_out = html_out]
                     ELSE [call EXCEPT !.pc = "done", !.reply = Error500]
    /\ UNCHANGED traxVars

\* write_file, app.py:65-68, called at 779 and 796
RunWrite ==
    /\ call.fn = "run" /\ call.pc = "write"
    /\ call' = IF call.route = "run"
               THEN [call EXCEPT !.pc = "add", !.files.hotels = call.html_out]
               ELSE [call EXCEPT !.pc = "add", !.files.flights = call.html_out]
    /\ UNCHANGED traxVars

\* the path given to git add, app.py:780 and 797
GitPath == IF call.route = "run" THEN RESULTS_HOTELS ELSE RESULTS_FLIGHTS

GitRun(cmd, ok) == [cmd |-> cmd, path |-> IF cmd = "add" THEN GitPath ELSE "", ok |-> ok]

\* faulty variant of GitAdd: a failing add does not stop the sequence
GitAdd_Unchecked ==
    /\ call.fn = "run" /\ call.pc = "add"
    /\ \E ok \in BOOLEAN : call' = [call EXCEPT !.pc = "commit", !.git = Append(@, GitRun("add", ok))]
    /\ UNCHANGED traxVars

\* git add with check=True, app.py:72, and the except clause, app.py:77-78
GitAdd ==
    /\ call.fn = "run" /\ call.pc = "add"
    /\ \E ok \in BOOLEAN :
          call' = IF ok THEN [call EXCEPT !.pc = "commit", !.git = Append(@, GitRun("add", TRUE))]
                  ELSE [call EXCEPT !.pc = "reply", !.git = Append(@, GitRun("add", FALSE)),
                                    !.git_ret = GitError]
    /\ UNCHANGED traxVars

\* git commit with check=False, app.py:73-74
GitCommit ==
    /\ call.fn = "run" /\ call.pc = "commit"
    /\ \E ok \in BOOLEAN : call' = [call EXCEPT !.pc = "push", !.git = Append(@, GitRun("commit", ok))]
    /\ UNCHANGED traxVars

\* git push with check=True, app.py:75-78
GitPush ==
    /\ call.fn = "run" /\ call.pc = "push"
    /\ \E ok \in BOOLEAN :
          call' = [call EXCEPT !.pc = "reply", !.git = Append(@, GitRun("push", ok)),
                               !.git_ret = IF ok THEN GitNone ELSE GitError]
    /\ UNCHANGED traxVars

\* app.py:781 and 798
RunReply ==
    /\ call.fn = "run" /\ call.pc = "reply"
    /\ call' = [call EXCEPT !.pc = "done", !.reply = HtmlResponse(call.html_out)]
    /\ UNCHANGED traxVars

NextRun ==
    \/ HotelsValidate \/ FlightsValidate \/ RunSearch \/ RunRender \/ RunWrite
    \/ GitAdd \/ GitCommit \/ GitPush \/ RunReply

SpecRun == InitRun /\ [][NextRun]_vars

(***************************************************************************)
(* Claims about run_hotels, run_flights and git_add_commit_push            *)
(***************************************************************************)
IsRunCall == call.fn = "run"

Given(a) == a # PyNone /\ Strip(a) # <<>>

\* the request has what its handler asks for: the parameters, and for /run a date
\* that exists and a whole number of nights
RequestAccepted ==
    IF call.route = "run"
    THEN /\ Given(call.args.where) /\ Given(call.args.when)
         /\ parse_date(Strip(call.args.when)).kind = "date"
         /\ (call.args.nights # PyNone => IntOf(Strip(call.args.nights)).kind = "int")
    ELSE Given(call.args.departure) /\ Given(call.args.arrival) /\ Given(call.args.date)

FilesUnchanged == call.files.hotels = OldPage /\ call.files.flights = OldPage

\* the results file of the route of the call
OwnFile == IF call.route = "run" THEN call.files.hotels ELSE call.files.flights

OtherFile == IF call.route = "run" THEN call.files.flights ELSE call.files.hotels

\* C29: the results file is written, and git is run, only after the request was
\* validated, the search returned and the page was rendered, the file before git; a
\* request that is rejected, or whose search raises, leaves the results files as they
\* were and runs no git command.
C29_PublishOnlyAfterRender ==
    IsRunCall =>
        /\ (~FilesUnchanged \/ call.git # <<>>) =>
              /\ RequestAccepted /\ call.searched /\ call.html_out # NoPage
              /\ OwnFile = call.html_out /\ OtherFile = OldPage
        /\ (call.pc = "done" /\ ~RequestAccepted) =>
              (call.reply.status = 400 /\ FilesUnchanged /\ call.git = <<>>)
        /\ (call.pc = "done" /\ call.reply.status = 400) => (FilesUnchanged /\ call.git = <<>>)
        /\ (call.pc = "done" /\ ~call.searched) =>
              (call.reply.status # 200 /\ FilesUnchanged /\ call.git = <<>>)

\* the search of a valid /run request has raised
C29_Witness ==
    /\ IsRunCall /\ call.route = "run"
    /\ call.pc = "done"
    /\ call.ci_s = <<"2", "0", "2", "4", "-", "0", "2", "-", "2", "9">>
    /\ call.co_s = <<"2", "0", "2", "4", "-", "0", "3", "-", "0", "2">>
    /\ ~call.searched
    /\ call.reply.status = 500
    /\ FilesUnchanged /\ call.git = <<>>

GitOrder == <<"add", "commit", "push">>

GitReturned == call.git_ret # NotReturned

\* the git command cmd has been run and has failed
GitFailed(cmd) == \E i \in DOMAIN call.git : call.git[i].cmd = cmd /\ ~call.git[i].ok

GitSucceeded(cmd) == \E i \in DOMAIN call.git : call.git[i].cmd = cmd /\ call.git[i].ok

\* C30: git add, git commit and git push run in that order; a failing add ends the
\* sequence with an error text; a failing commit does not, push is still run; None is
\* returned exactly when add and push succeeded; no failing command makes the handler
\* fail: it returns the rendered page whatever git_add_commit_push returned.
C30_GitSequence ==
    IsRunCall =>
        /\ Len(call.git) <= 3
        /\ \A i \in DOMAIN call.git : call.git[i].cmd = GitOrder[i]
        /\ GitFailed("add") => (Len(call.git) = 1 /\ call.git_ret = GitError)
        /\ GitReturned => (GitSucceeded("add") => Len(call.git) = 3)
        /\ GitReturned => (call.git_ret = GitNone <=> (GitSucceeded("add") /\ GitSucceeded("push")))
        /\ GitReturned => call.git_ret \in {GitNone, GitError}
        /\ (call.pc = "done" /\ call.git # <<>>) =>
              (GitReturned /\ call.reply = HtmlResponse(call.html_out) /\ call.html_out # NoPage)

\* the commit has failed, the push has been made, None has been returned and the page sent
C30_Witness ==
    /\ IsRunCall
    /\ call.pc = "done"
    /\ GitFailed("commit") /\ GitSucceeded("push")
    /\ call.git_ret = GitNone
    /\ call.reply.status = 200

====
